---- MODULE Spec2Model ----
(***************************************************************************)
(* wave-billing-gpt-backend: the route handlers under app/api, the         *)
(* environment resolvers of lib/businessSelector and lib/wavePaymentConfig *)
(* and the GraphQL transport waveGraphQLFetch, as state machines.          *)
(*                                                                         *)
(*   Spec         one inbound request at a time runs through a route       *)
(*                handler; Wave answers each outbound call.                *)
(*   SpecFetch    waveGraphQLFetch called directly, the access token       *)
(*                changing between calls.                                  *)
(*   SpecResolve  the resolvers applied to a key and an environment.       *)
(***************************************************************************)
EXTENDS Integers, Sequences, FiniteSets, TLC

VARIABLES
    env,      \* process.env: variable name -> string, or Unset
    handler,  \* the route handler running the request ("none" before one arrives)
    req,      \* the inbound request: method, x-internal-secret header, body
    pc,       \* "idle" | "await" (suspended at an outbound call) | "done"
    ctx,      \* the handler's locals that live across an await
    http,     \* every HTTP request sent to Wave so far, in order
    results,  \* how each call of waveGraphQLFetch by the handler ended, in order
    resp,     \* the responses the handler returned (a sequence)
    ledger,   \* mutations Wave has applied (the upstream system of record)
    trace,    \* history: the pipeline stages the request passed, env names read
    fx,       \* SpecFetch: the state of a direct waveGraphQLFetch call
    rs,       \* SpecResolve: the resolver applied and what it gave
    peer      \* SpecPair: a second request, suspended while this one runs

vars == <<env, handler, req, pc, ctx, http, results, resp, ledger, trace, fx, rs, peer>>

(***************************************************************************)
(* Bounds of the model.                                                    *)
(***************************************************************************)
\* at most this many environment entries are unset or empty (Spec)
MaxMissing == 1
\* at most this many environment entries are unset or empty (SpecResolve)
MaxMissingResolve == 2
\* direct calls of waveGraphQLFetch in one behaviour of SpecFetch
MaxFetchCalls == 2
\* entries of the errors list of a GraphQL response (SpecFetch)
MaxErrors == 2
\* line items of a create-invoice body (SpecValidate)
MaxItems == 2
\* invoices or customers on a page Wave returns (SpecRespond)
MaxNodes == 2

(***************************************************************************)
(* JavaScript values.  A JSON value is a tagged record; undefined is the   *)
(* value of a property that is not there.                                  *)
(***************************************************************************)
Undef == [t |-> "undefined"]
Null == [t |-> "null"]
Str(s) == [t |-> "string", s |-> s]
\* k: "finite" | "inf" | "-inf" | "nan"; n is the value when finite
Num(n) == [t |-> "number", k |-> "finite", n |-> n]
Infinity == [t |-> "number", k |-> "inf", n |-> 0]
NegInfinity == [t |-> "number", k |-> "-inf", n |-> 0]
NaN == [t |-> "number", k |-> "nan", n |-> 0]
Bool(b) == [t |-> "boolean", b |-> b]
Arr(a) == [t |-> "array", a |-> a]

\* !v
Not(v) ==
    CASE v.t = "undefined" -> TRUE
      [] v.t = "null" -> TRUE
      [] v.t = "string" -> v.s = ""
      [] v.t = "number" -> v.k = "nan" \/ (v.k = "finite" /\ v.n = 0)
      [] v.t = "boolean" -> ~v.b
      [] OTHER -> FALSE

\* v === undefined || v === null  (the left side of ?? and ?.)
Nullish(v) == v.t \in {"undefined", "null"}

\* typeof v
TypeOf(v) ==
    CASE v.t = "null" -> "object"
      [] v.t = "array" -> "object"
      [] OTHER -> v.t

\* Number.isFinite(v)
IsFinite(v) == v.t = "number" /\ v.k = "finite"
\* Number.isNaN(v)
IsNaN(v) == v.t = "number" /\ v.k = "nan"
\* v <= 0 for a number v (NaN compares false with everything)
LeqZero(v) == v.k = "-inf" \/ (v.k = "finite" /\ v.n <= 0)
\* v < 0 for a number v
LtZero(v) == v.k = "-inf" \/ (v.k = "finite" /\ v.n < 0)
\* v.trim() of a string value: the model's strings carry no outer blanks but " "
Trim(s) == IF s = " " THEN "" ELSE s

\* a function call's completion: a value returned, or an Error thrown
Return(v) == [ok |-> TRUE, v |-> v]
Throw(m) == [ok |-> FALSE, msg |-> m]

(***************************************************************************)
(* process.env                                                             *)
(***************************************************************************)
\* process.env[name] of a variable that is not set (JavaScript undefined)
Unset == "<undefined>"

BusinessKeys == {"manna", "bako", "socialion"}

Upper(key) ==
    CASE key = "manna" -> "MANNA"
      [] key = "bako" -> "BAKO"
      [] key = "socialion" -> "SOCIALION"
      [] OTHER -> "?"

EntryKinds ==
    {"WAVE_BUSINESS_ID_", "WAVE_ANCHOR_ACCOUNT_ID_", "WAVE_SALES_ACCOUNT_ID_",
     "WAVE_INCOME_ACCOUNT_ID_", "WAVE_LINE_ITEM_ACCOUNT_ID_",
     "WAVE_PRODUCT_ID_GENERIC_"}

BusinessEntries == {kind \o Upper(k) : kind \in EntryKinds, k \in BusinessKeys}

EnvNames == BusinessEntries \cup {"INTERNAL_API_SECRET", "WAVE_ACCESS_TOKEN"}

\* the value an entry has when it is configured: one distinct id per entry
Configured(name) ==
    CASE name = "INTERNAL_API_SECRET" -> "s3cret"
      [] name = "WAVE_ACCESS_TOKEN" -> "tok"
      [] OTHER -> "id:" \o name

\* the sets of at most n entry names
RECURSIVE UpTo(_)
UpTo(n) ==
    IF n = 0 THEN {{}}
    ELSE LET prev == UpTo(n - 1)
         IN prev \cup {s \cup {x} : s \in prev, x \in EnvNames}

\* the environments in which at most n entries are unset or empty
Environments(n) ==
    UNION {
        {[name \in EnvNames |-> IF name \in s THEN f[name] ELSE Configured(name)]
            : f \in [s -> {Unset, ""}]}
        : s \in UpTo(n)}

\* !value for a value read from process.env (string | undefined)
NotSet(value) == value = Unset \/ value = ""

(***************************************************************************)
(* Environment resolvers.  e is process.env, key the business key.         *)
(***************************************************************************)
readEnv(e, name) ==
    IF NotSet(e[name]) THEN Throw(name \o " is not set") ELSE Return(e[name])

\* lib/businessSelector.ts
getBusinessIdFromKey(e, key) ==
    CASE key = "manna" -> readEnv(e, "WAVE_BUSINESS_ID_MANNA")
      [] key = "bako" -> readEnv(e, "WAVE_BUSINESS_ID_BAKO")
      [] key = "socialion" -> readEnv(e, "WAVE_BUSINESS_ID_SOCIALION")
      [] OTHER -> Throw("Unknown business key: " \o key)

\* a variant that reads the second entry without checking it
AccountPair_unchecked(e, a, b) ==
    LET first == readEnv(e, a)
    IN IF ~first.ok THEN first
       ELSE Return([anchorAccountId |-> first.v, otherAccountId |-> e[b]])

\* an object literal {anchorAccountId: readEnv(a), <second>: readEnv(b)}:
\* the properties are evaluated in order and the first throw ends it
AccountPair(e, a, b) ==
    LET first == readEnv(e, a)
        second == readEnv(e, b)
    IN IF ~first.ok THEN first
       ELSE IF ~second.ok THEN second
       ELSE Return([anchorAccountId |-> first.v, otherAccountId |-> second.v])

\* lib/wavePaymentConfig.ts; otherAccountId is its salesAccountId
getWavePaymentConfig(e, key) ==
    CASE key = "manna" ->
            AccountPair(e, "WAVE_ANCHOR_ACCOUNT_ID_MANNA", "WAVE_SALES_ACCOUNT_ID_MANNA")
      [] key = "bako" ->
            AccountPair(e, "WAVE_ANCHOR_ACCOUNT_ID_BAKO", "WAVE_SALES_ACCOUNT_ID_BAKO")
      [] key = "socialion" ->
            AccountPair(e, "WAVE_ANCHOR_ACCOUNT_ID_SOCIALION", "WAVE_SALES_ACCOUNT_ID_SOCIALION")
      [] OTHER -> Throw("Unknown business key: " \o key)

\* the add-payment variant that books against the income account;
\* otherAccountId is its incomeAccountId
getAccountIdsFromKey(e, key) ==
    CASE key = "manna" ->
            AccountPair(e, "WAVE_ANCHOR_ACCOUNT_ID_MANNA", "WAVE_INCOME_ACCOUNT_ID_MANNA")
      [] key = "bako" ->
            AccountPair(e, "WAVE_ANCHOR_ACCOUNT_ID_BAKO", "WAVE_INCOME_ACCOUNT_ID_BAKO")
      [] key = "socialion" ->
            AccountPair(e, "WAVE_ANCHOR_ACCOUNT_ID_SOCIALION", "WAVE_INCOME_ACCOUNT_ID_SOCIALION")
      [] OTHER -> Throw("Unknown business key: " \o key)

\* invoices/create: a lookup in a map with the three keys; any other key
\* finds nothing
getGenericProductId(e, key) ==
    LET productId ==
            CASE key = "manna" -> e["WAVE_PRODUCT_ID_GENERIC_MANNA"]
              [] key = "bako" -> e["WAVE_PRODUCT_ID_GENERIC_BAKO"]
              [] key = "socialion" -> e["WAVE_PRODUCT_ID_GENERIC_SOCIALION"]
              [] OTHER -> Unset
    IN IF NotSet(productId)
       THEN Throw("Missing generic product ID for business " \o key)
       ELSE Return(productId)

\* key === 'manna' ? A : key === 'bako' ? B : C, as the three readers below
\* choose the variable name
TernaryEnvName(kind, key) ==
    IF key = "manna" THEN kind \o "MANNA"
    ELSE IF key = "bako" THEN kind \o "BAKO"
    ELSE kind \o "SOCIALION"

\* the create-invoice variant that names the variable in its error
getGenericProductId_v2(e, key) ==
    LET envName == TernaryEnvName("WAVE_PRODUCT_ID_GENERIC_", key)
    IN IF NotSet(e[envName]) THEN Throw(envName \o " is not set") ELSE Return(e[envName])

\* transactions/create
getAnchorAccountIdFromEnv(e, key) ==
    LET envName == TernaryEnvName("WAVE_ANCHOR_ACCOUNT_ID_", key)
    IN IF NotSet(e[envName])
       THEN Throw("Missing anchor account env var for " \o key)
       ELSE Return(e[envName])

getLineItemAccountIdFromEnv(e, key) ==
    LET envName == TernaryEnvName("WAVE_LINE_ITEM_ACCOUNT_ID_", key)
    IN IF NotSet(e[envName])
       THEN Throw("Missing line item account env var for " \o key)
       ELSE Return(e[envName])

(***************************************************************************)
(* The GraphQL transport (waveClient).                                     *)
(*                                                                         *)
(* An HTTP exchange with Wave ends in a record                             *)
(*   [net, status, statusText, text, json]                                 *)
(* net = "error" when fetch() itself rejects; text is the raw body and     *)
(* json what response.json() makes of it: NotJson when it does not parse.  *)
(***************************************************************************)
WAVE_GRAPHQL_ENDPOINT == "https://gql.waveapps.com/graphql/public"

NotJson == [t |-> "not-json"]

\* the body {errors, data} of a GraphQL response; Undef is an absent field
Doc(errors, data) == [t |-> "object", errors |-> errors, data |-> data]
GqlError(message) == [t |-> "object", message |-> message]

\* response.ok
ResponseOk(r) == r.status >= 200 /\ r.status <= 299

\* a variant of the token check that lets an empty token through
waveGraphQLFetch_token_unsetOnly(e) ==
    IF e["WAVE_ACCESS_TOKEN"] = Unset
    THEN Throw("WAVE_ACCESS_TOKEN is not set")
    ELSE Return(e["WAVE_ACCESS_TOKEN"])

\* const token = process.env.WAVE_ACCESS_TOKEN; if (!token) throw
waveGraphQLFetch_token(e) ==
    IF NotSet(e["WAVE_ACCESS_TOKEN"])
    THEN Throw("WAVE_ACCESS_TOKEN is not set")
    ELSE Return(e["WAVE_ACCESS_TOKEN"])

\* a variant of the call that sends its request a second time
waveGraphQLFetch_send_twice(token, query, variables) ==
    LET request == [url |-> "https://gql.waveapps.com/graphql/public",
                    method |-> "POST",
                    authorization |-> "Bearer " \o token,
                    contentType |-> "application/json",
                    body |-> [query |-> query, variables |-> variables]]
    IN <<request, request>>

\* the HTTP requests one call sends once it holds a token: one fetch()
waveGraphQLFetch_send(token, query, variables) ==
    << [url |-> WAVE_GRAPHQL_ENDPOINT,
        method |-> "POST",
        authorization |-> "Bearer " \o token,
        contentType |-> "application/json",
        body |-> [query |-> query, variables |-> variables]] >>

\* json.errors?.length
ErrorsLength(json) == IF json.errors.t = "array" THEN Len(json.errors.a) ELSE 0

\* json.errors[0]?.message ?? 'Unknown error'
FirstMessage(json) ==
    LET first == json.errors.a[1]
    IN IF Nullish(first) THEN "Unknown error"
       ELSE IF Nullish(first.message) THEN "Unknown error"
       ELSE first.message.s

\* a variant of the classification that looks at data before errors
waveGraphQLFetch_settle_dataFirst(r) ==
    IF r.net = "error" THEN Throw("fetch failed")
    ELSE IF ~ResponseOk(r)
    THEN Throw("Wave GraphQL request failed: " \o ToString(r.status) \o " "
               \o r.statusText \o " - "
               \o (IF r.text = "" THEN "No response body" ELSE r.text))
    ELSE IF r.json = NotJson THEN Throw("SyntaxError: the body is not JSON")
    ELSE IF r.json = Null
    THEN Throw("TypeError: Cannot read properties of null (reading 'errors')")
    ELSE IF r.json.data # Undef THEN Return(r.json.data)
    ELSE IF ErrorsLength(r.json) > 0
    THEN Throw("Wave GraphQL error: " \o FirstMessage(r.json))
    ELSE Throw("Wave GraphQL response missing data")

\* what the call makes of the exchange r: return json.data or throw
waveGraphQLFetch_settle(r) ==
    IF r.net = "error" THEN Throw("fetch failed")
    ELSE IF ~ResponseOk(r)
    THEN Throw("Wave GraphQL request failed: " \o ToString(r.status) \o " "
               \o r.statusText \o " - "
               \o (IF r.text = "" THEN "No response body" ELSE r.text))
    ELSE IF r.json = NotJson THEN Throw("SyntaxError: the body is not JSON")
    ELSE IF r.json = Null
    THEN Throw("TypeError: Cannot read properties of null (reading 'errors')")
    ELSE IF ErrorsLength(r.json) > 0
    THEN Throw("Wave GraphQL error: " \o FirstMessage(r.json))
    ELSE IF r.json.data = Undef THEN Throw("Wave GraphQL response missing data")
    ELSE Return(r.json.data)

(***************************************************************************)
(* The state before a request arrives.                                     *)
(***************************************************************************)
\* req.headers.get('x-internal-secret') of a request without the header
NoHeader == "<null>"

\* the handler's locals: what it resolved and what earlier calls gave it
NoCtx ==
    [step |-> "", businessId |-> "", anchorAccountId |-> "", otherAccountId |-> "",
     productId |-> "", node |-> Null, entity |-> Null]

NoRequest == [method |-> "", secret |-> NoHeader, body |-> NotJson]
NoTrace == [at |-> "", crashed |-> FALSE]
\* no call has ended yet
NoOutcome == [ok |-> FALSE, msg |-> "<no call has ended>"]
\* no resolver has been applied yet
NoResolve == [fn |-> "none", key |-> "", out |-> NoOutcome]
\* no second request: its handler, request, position, locals, calls sent,
\* outcomes, responses and stage
NoPeer ==
    [handler |-> "none", req |-> NoRequest, pc |-> "idle", ctx |-> NoCtx, http |-> <<>>,
     results |-> <<>>, resp |-> <<>>, trace |-> NoTrace]

(***************************************************************************)
(* SpecFetch: waveGraphQLFetch called directly.                            *)
(***************************************************************************)
NetworkError == [net |-> "error", status |-> 0, statusText |-> "", text |-> "", json |-> NotJson]
HttpResponse(status, statusText, body) ==
    [net |-> "ok", status |-> status, statusText |-> statusText,
     text |-> body.text, json |-> body.json]

\* the raw text of the JSON values the model sends (JSON.stringify)
RECURSIVE JsonText(_)
JsonText(v) ==
    CASE v.t = "null" -> "null"
      [] v.t = "string" -> "'" \o v.s \o "'"
      [] v.t = "array" ->
            IF v.a = <<>> THEN "[]"
            ELSE IF Len(v.a) = 1 THEN "[" \o JsonText(v.a[1]) \o "]"
            ELSE "[" \o JsonText(v.a[1]) \o "," \o JsonText(Arr(Tail(v.a))) \o "]"
      [] "message" \in DOMAIN v ->
            IF v.message = Undef THEN "{}" ELSE "{message:" \o JsonText(v.message) \o "}"
      [] "errors" \in DOMAIN v ->
            "{" \o (IF v.errors = Undef THEN "" ELSE "errors:" \o JsonText(v.errors) \o ";")
                \o (IF v.data = Undef THEN "" ELSE "data:" \o JsonText(v.data)) \o "}"
      [] OTHER -> "{...}"

\* a body as Wave sends it: its text, and what response.json() gives for it
TextBody(text) == [text |-> text, json |-> NotJson]
JsonBody(json) == [text |-> JsonText(json), json |-> json]

RECURSIVE SeqsUpTo(_, _)
SeqsUpTo(S, n) ==
    IF n = 0 THEN {<<>>}
    ELSE LET prev == SeqsUpTo(S, n - 1)
         IN prev \cup {Append(q, x) : q \in prev, x \in S}

FetchErrorItems == {GqlError(Str("m1")), GqlError(Str("m2")), GqlError(Undef)}
FetchErrors == {Undef, Null} \cup {Arr(a) : a \in SeqsUpTo(FetchErrorItems, MaxErrors)}
FetchData == {Undef, Null, [t |-> "object", business |-> Null]}

FetchBodies ==
    {TextBody(""), TextBody("<html>Bad Gateway</html>"), JsonBody(Null)}
        \cup {JsonBody(Doc(errs, data)) : errs \in FetchErrors, data \in FetchData}

FetchStatuses == {<<200, "OK">>, <<204, "No Content">>, <<401, "Unauthorized">>,
                  <<502, "Bad Gateway">>}

FetchResponses ==
    {NetworkError} \cup {HttpResponse(st[1], st[2], b) : st \in FetchStatuses, b \in FetchBodies}

TokenValues == {Unset, "", "tok", "tok2"}

NoResponse == [net |-> "none"]

IdleFetch ==
    [pc |-> "idle", calls |-> 0, withToken |-> 0, refused |-> 0,
     out |-> NoOutcome, last |-> NoResponse]

InitFetch ==
    /\ env \in {[name \in EnvNames |->
                    IF name = "WAVE_ACCESS_TOKEN" THEN t ELSE Configured(name)]
                : t \in TokenValues}
    /\ fx = IdleFetch /\ peer = NoPeer
    /\ http = <<>>
    /\ handler = "none" /\ req = NoRequest /\ pc = "idle" /\ ctx = NoCtx
    /\ results = <<>> /\ resp = <<>> /\ ledger = <<>> /\ trace = NoTrace
    /\ rs = NoResolve

\* waveGraphQLFetch(query, variables) up to the await of fetch()
FetchCall(query, variables) ==
    /\ fx.pc # "await"
    /\ fx.calls < MaxFetchCalls
    /\ LET token == waveGraphQLFetch_token(env)
       IN IF ~token.ok
          THEN /\ fx' = [fx EXCEPT !.pc = "threw", !.calls = @ + 1, !.refused = @ + 1,
                                   !.out = token, !.last = NoResponse]
               /\ http' = http
          ELSE /\ fx' = [fx EXCEPT !.pc = "await", !.calls = @ + 1, !.withToken = @ + 1,
                                   !.out = NoOutcome, !.last = NoResponse]
               /\ http' = http \o waveGraphQLFetch_send(token.v, query, variables)
    /\ UNCHANGED <<env, handler, req, pc, ctx, results, resp, ledger, trace, rs, peer>>

\* the exchange ends in r and the call returns or throws
FetchSettle(r) ==
    /\ fx.pc = "await"
    /\ LET out == waveGraphQLFetch_settle(r)
       IN fx' = [fx EXCEPT !.pc = IF out.ok THEN "returned" ELSE "threw",
                           !.out = out, !.last = r]
    /\ UNCHANGED <<env, handler, req, pc, ctx, http, results, resp, ledger, trace, rs, peer>>

\* the deployment changes WAVE_ACCESS_TOKEN
SetToken(value) ==
    /\ env["WAVE_ACCESS_TOKEN"] # value
    /\ env' = [env EXCEPT !["WAVE_ACCESS_TOKEN"] = value]
    /\ UNCHANGED <<handler, req, pc, ctx, http, results, resp, ledger, trace, fx, rs, peer>>

NextFetch ==
    \/ \E query \in {"query A", "mutation B"} : FetchCall(query, [id |-> "x"])
    \/ \E r \in FetchResponses : FetchSettle(r)
    \/ \E value \in TokenValues : SetToken(value)

SpecFetch == InitFetch /\ [][NextFetch]_vars

(***************************************************************************)
(* Properties of the transport (SpecFetch).                                *)
(***************************************************************************)
\* the outcomes of an HTTP response r as the classification is described
FetchIsDocument(r) == r.json # NotJson /\ r.json # Null
FetchHasErrors(r) ==
    /\ FetchIsDocument(r)
    /\ r.json.errors.t = "array"
    /\ r.json.errors.a # <<>>
FetchStatusFailure(r, out) ==
    /\ ~ResponseOk(r)
    /\ \/ r.text # "" /\ out = Throw("Wave GraphQL request failed: " \o ToString(r.status)
                                      \o " " \o r.statusText \o " - " \o r.text)
       \/ r.text = "" /\ out = Throw("Wave GraphQL request failed: " \o ToString(r.status)
                                      \o " " \o r.statusText \o " - No response body")
FetchErrorsFailure(r, out) ==
    /\ ResponseOk(r)
    /\ FetchHasErrors(r)
    /\ LET first == r.json.errors.a[1]
       IN \/ first.message # Undef /\ out = Throw("Wave GraphQL error: " \o first.message.s)
          \/ first.message = Undef /\ out = Throw("Wave GraphQL error: Unknown error")
FetchMissingData(r, out) ==
    /\ ResponseOk(r)
    /\ FetchIsDocument(r)
    /\ ~FetchHasErrors(r)
    /\ r.json.data = Undef
    /\ out = Throw("Wave GraphQL response missing data")
FetchData_returned(r, out) ==
    /\ ResponseOk(r)
    /\ FetchIsDocument(r)
    /\ ~FetchHasErrors(r)
    /\ r.json.data # Undef
    /\ out = Return(r.json.data)
FetchUnreadable(r, out) ==
    /\ ResponseOk(r)
    /\ ~FetchIsDocument(r)
    /\ ~out.ok
    /\ out.msg \in {"SyntaxError: the body is not JSON",
                    "TypeError: Cannot read properties of null (reading 'errors')"}

\* C2 as stated: every HTTP response ends in exactly one of four outcomes,
\* taken in this order: a non-2xx status fails with status, status text and
\* body text; else a non-empty errors list fails with the first message;
\* else an absent data field fails with 'response missing data'; else the
\* data payload is returned.
C2_FourOutcomes ==
    fx.last.net = "ok" =>
        \/ FetchStatusFailure(fx.last, fx.out)
        \/ FetchErrorsFailure(fx.last, fx.out)
        \/ FetchMissingData(fx.last, fx.out)
        \/ FetchData_returned(fx.last, fx.out)

\* C2, amended: every HTTP response ends in exactly one of five outcomes,
\* in this order: a non-2xx status fails with status, status text and body
\* text ('No response body' for an empty body) before the body is parsed;
\* else a 2xx body that is not JSON, or is JSON null, fails with the
\* exception of reading it; else a non-empty errors list fails with the
\* first message ('Unknown error' when it has none) even with data
\* present; else an absent data field fails with 'response missing data';
\* else the data field is returned.
C2_FiveOutcomes ==
    fx.last.net = "ok" =>
        \/ FetchStatusFailure(fx.last, fx.out)
        \/ FetchUnreadable(fx.last, fx.out)
        \/ FetchErrorsFailure(fx.last, fx.out)
        \/ FetchMissingData(fx.last, fx.out)
        \/ FetchData_returned(fx.last, fx.out)

\* a 2xx response with both a non-empty errors list and data has been refused
C2_Witness ==
    /\ fx.last.net = "ok"
    /\ ResponseOk(fx.last)
    /\ FetchHasErrors(fx.last)
    /\ ~Nullish(fx.last.json.data)
    /\ fx.pc = "threw"

\* C3: whenever waveGraphQLFetch returns without throwing, the value it
\* returns is a populated data payload, never an absent or null data field.
C3_ReturnsPopulated == fx.pc = "returned" => ~Nullish(fx.out.v)

\* C4: every call reads WAVE_ACCESS_TOKEN when it is made: with the token
\* unset or empty it throws the missing-token error and sends nothing; with
\* a token it sends the request under that token, whatever earlier calls met.
C4_TokenReadPerCall ==
    [][fx'.calls = fx.calls + 1 =>
        IF NotSet(env["WAVE_ACCESS_TOKEN"])
        THEN /\ fx'.pc = "threw"
             /\ fx'.out = Throw("WAVE_ACCESS_TOKEN is not set")
             /\ http' = http
        ELSE /\ fx'.pc = "await"
             /\ Len(http') = Len(http) + 1
             /\ http'[Len(http')].authorization = "Bearer " \o env["WAVE_ACCESS_TOKEN"]
      ]_vars

\* a call was refused for the missing token and a later call is on the wire
C4_Witness == fx.refused > 0 /\ fx.pc = "await" /\ Len(http) = 1

\* C5: the calls made with a token present have sent one HTTP POST each to
\* the fixed endpoint, whatever their outcomes.
C5_OnePostPerCall ==
    /\ Len(http) = fx.withToken
    /\ \A i \in 1..Len(http) :
          http[i].method = "POST" /\ http[i].url = WAVE_GRAPHQL_ENDPOINT

\* two calls with a token have ended, the second in a network error
C5_Witness ==
    /\ fx.withToken = 2
    /\ fx.pc = "threw"
    /\ fx.last = NetworkError
    /\ Len(http) = 2

(***************************************************************************)
(* SpecResolve: each resolver applied to a key under an environment.  The  *)
(* key is any string: the handlers pass what the request body carried.     *)
(***************************************************************************)
ResolveKeys == BusinessKeys \cup {"other"}

InitResolve ==
    /\ env \in Environments(MaxMissingResolve)
    /\ rs = NoResolve
    /\ fx = IdleFetch /\ peer = NoPeer
    /\ http = <<>>
    /\ handler = "none" /\ req = NoRequest /\ pc = "idle" /\ ctx = NoCtx
    /\ results = <<>> /\ resp = <<>> /\ ledger = <<>> /\ trace = NoTrace

Resolved(fn, key, out) ==
    /\ rs' = [fn |-> fn, key |-> key, out |-> out]
    /\ UNCHANGED <<env, handler, req, pc, ctx, http, results, resp, ledger, trace, fx, peer>>

ResolveBusinessId(key) == Resolved("getBusinessIdFromKey", key, getBusinessIdFromKey(env, key))
ResolvePaymentConfig(key) == Resolved("getWavePaymentConfig", key, getWavePaymentConfig(env, key))
ResolveAccountIds(key) == Resolved("getAccountIdsFromKey", key, getAccountIdsFromKey(env, key))
ResolveGenericProduct(key) == Resolved("getGenericProductId", key, getGenericProductId(env, key))
ResolveGenericProduct_v2(key) ==
    Resolved("getGenericProductId_v2", key, getGenericProductId_v2(env, key))
ResolveAnchorAccount(key) ==
    Resolved("getAnchorAccountIdFromEnv", key, getAnchorAccountIdFromEnv(env, key))
ResolveLineItemAccount(key) ==
    Resolved("getLineItemAccountIdFromEnv", key, getLineItemAccountIdFromEnv(env, key))

NextResolve ==
    \E key \in ResolveKeys :
        \/ ResolveBusinessId(key)
        \/ ResolvePaymentConfig(key)
        \/ ResolveAccountIds(key)
        \/ ResolveGenericProduct(key)
        \/ ResolveGenericProduct_v2(key)
        \/ ResolveAnchorAccount(key)
        \/ ResolveLineItemAccount(key)

SpecResolve == InitResolve /\ [][NextResolve]_vars

\* the entries a resolver needs for a key of the enumerated set, in read order
ReadOrder(fn, key) ==
    CASE fn = "getBusinessIdFromKey" -> <<"WAVE_BUSINESS_ID_" \o Upper(key)>>
      [] fn = "getWavePaymentConfig" ->
            <<"WAVE_ANCHOR_ACCOUNT_ID_" \o Upper(key), "WAVE_SALES_ACCOUNT_ID_" \o Upper(key)>>
      [] fn = "getAccountIdsFromKey" ->
            <<"WAVE_ANCHOR_ACCOUNT_ID_" \o Upper(key), "WAVE_INCOME_ACCOUNT_ID_" \o Upper(key)>>
      [] fn \in {"getGenericProductId", "getGenericProductId_v2"} ->
            <<"WAVE_PRODUCT_ID_GENERIC_" \o Upper(key)>>
      [] fn = "getAnchorAccountIdFromEnv" -> <<"WAVE_ANCHOR_ACCOUNT_ID_" \o Upper(key)>>
      [] fn = "getLineItemAccountIdFromEnv" -> <<"WAVE_LINE_ITEM_ACCOUNT_ID_" \o Upper(key)>>
      [] OTHER -> <<>>

\* the indices of the needed entries that are unset or empty
MissingAt(e, order) == {i \in 1..Len(order) : NotSet(e[order[i]])}
Least(S) == CHOOSE i \in S : \A j \in S : i <= j

\* C8: a resolver applied to a key outside the enumerated set fails with
\* the unknown-business-key error, and applied to a key of the set with a
\* needed entry unset or empty it fails with an error that names the first
\* such entry in read order (of the messages the resolvers build, the ones
\* that carry the entry's name are "<name> is not set").
C8_FailureNamesEntry ==
    rs.fn # "none" =>
        IF rs.key \notin BusinessKeys
        THEN rs.out = Throw("Unknown business key: " \o rs.key)
        ELSE LET order == ReadOrder(rs.fn, rs.key)
                 missing == MissingAt(env, order)
             IN missing # {} => rs.out = Throw(order[Least(missing)] \o " is not set")

(***************************************************************************)
(* Route handlers.                                                         *)
(*                                                                         *)
(* A request is [method, secret, body]: secret is the x-internal-secret    *)
(* header (NoHeader when headers.get gives null), body what req.json()     *)
(* gives: NotJson when it rejects, else a JSON value.                      *)
(*                                                                         *)
(* A handler runs without interruption up to its next outbound call, and   *)
(* so a run of it is a step:                                               *)
(*   Respond  it returned NextResponse.json(body, {status})                *)
(*   Call     it called waveGraphQLFetch(query, variables) and awaits      *)
(*   Crash    an exception left the handler                                *)
(* "at" is the stage of the pipeline the step ended in: "method", "auth",  *)
(* "parse", "validate", "resolve" or "execute".                            *)
(***************************************************************************)
Respond(at, status, body) == [k |-> "respond", at |-> at, status |-> status, body |-> body]
Call(step, op, variables, c) ==
    [k |-> "call", at |-> "execute", op |-> op, variables |-> variables,
     ctx |-> [c EXCEPT !.step = step]]
Crash(at, msg) == [k |-> "crash", at |-> at, msg |-> msg]

\* new Date().toISOString().slice(0, 10) at the time of the request
todayIsoDate == "2024-01-28"

NullBodyError == "TypeError: Cannot read properties of null"

MethodNotAllowed == Respond("method", 405, [error |-> "Method Not Allowed", Allow |-> "POST"])
unauthorized == Respond("auth", 401, [error |-> "Unauthorized"])
InvalidJsonBody == Respond("parse", 400, [error |-> "Invalid JSON body"])

\* a variant of the secret check without the test for an empty header
SecretRejected_equalityOnly(rq, e) ==
    rq.secret = NoHeader \/ rq.secret # e["INTERNAL_API_SECRET"]

\* a variant that lets every request in when no secret is configured
SecretRejected_openWhenUnset(rq, e) ==
    /\ ~NotSet(e["INTERNAL_API_SECRET"])
    /\ (rq.secret = NoHeader \/ rq.secret = "" \/ rq.secret # e["INTERNAL_API_SECRET"])

\* !secret || secret !== process.env.INTERNAL_API_SECRET
SecretRejected(rq, e) ==
    rq.secret = NoHeader \/ rq.secret = "" \/ rq.secret # e["INTERNAL_API_SECRET"]

\* !body.businessKey || !validKeys.includes(body.businessKey)
InvalidBusinessKey(body) ==
    Not(body.businessKey) \/ body.businessKey \notin {Str(k) : k \in BusinessKeys}

\* x ?? y
Coalesce(x, y) == IF Nullish(x) THEN y ELSE x
\* x || y
OrElse(x, y) == IF Not(x) THEN y ELSE x
\* obj?.field
Opt(obj, field) == IF Nullish(obj) THEN Undef ELSE obj[field]

\* mapInvoiceNode(node), the same function in the four add-payment handlers
mapInvoiceNode(node) ==
    [id |-> node.id,
     invoiceNumber |-> Coalesce(node.invoiceNumber, Null),
     status |-> node.status,
     createdAt |-> node.createdAt,
     dueDate |-> Coalesce(node.dueDate, Null),
     totalAmount |-> Coalesce(Opt(node.total, "amount"), Num(0)),
     totalCurrency |-> Coalesce(Opt(Opt(node.total, "currency"), "code"), Str("")),
     amountDue |-> Coalesce(Opt(node.amountDue, "amount"), Num(0)),
     customer |-> [id |-> Coalesce(Opt(node.customer, "id"), Null),
                   name |-> Coalesce(Opt(node.customer, "name"), Null),
                   email |-> Coalesce(Opt(node.customer, "email"), Null)],
     publicUrl |-> Coalesce(node.publicUrl, Null)]

\* a variant that keeps the first message only
Messages_firstOnly(errs) ==
    IF errs = <<>> THEN <<>> ELSE <<Head(errs).message>>

\* payload?.inputErrors?.map((err) => err.message)
RECURSIVE Messages(_)
Messages(errs) ==
    IF errs = <<>> THEN <<>> ELSE <<Head(errs).message>> \o Messages(Tail(errs))

(***************************************************************************)
(* add-payment: lookup, invoicePaymentCreate, re-fetch                     *)
(* (app/api/wave/invoices/add-payment/route.ts)                            *)
(***************************************************************************)
\* a variant that checks the amount before the business key
validateBody_amountFirst(body) ==
    IF TypeOf(body.amount) # "number" \/ IsNaN(body.amount) \/ LeqZero(body.amount)
    THEN "Payment amount must be greater than zero"
    ELSE IF InvalidBusinessKey(body) THEN "Invalid or missing businessKey"
    ELSE IF Not(body.invoiceId) /\ Not(body.invoiceNumber)
    THEN "Either invoiceId or invoiceNumber must be provided"
    ELSE ""

validateBody(body) ==
    IF InvalidBusinessKey(body) THEN "Invalid or missing businessKey"
    ELSE IF Not(body.invoiceId) /\ Not(body.invoiceNumber)
    THEN "Either invoiceId or invoiceNumber must be provided"
    ELSE IF TypeOf(body.amount) # "number" \/ IsNaN(body.amount) \/ LeqZero(body.amount)
    THEN "Payment amount must be greater than zero"
    ELSE ""

\* a variant that writes a default amount into the body it rejects
validateBody_run_defaulting(body) ==
    [result |-> validateBody(body),
     body |-> IF validateBody(body) = "Payment amount must be greater than zero"
              THEN [body EXCEPT !.amount = Num(1)] ELSE body]

\* a call of validateBody: what it returns and the body it leaves behind
\* (the function only reads its argument)
validateBody_run(body) == [result |-> validateBody(body), body |-> body]

\* a variant that looks the invoice up by its number when it has one
lookupInvoice_numberFirst(c, invoiceId, invoiceNumber) ==
    IF ~Not(invoiceNumber)
    THEN Call("lookup", "FIND_INVOICE_BY_NUMBER_QUERY",
              [businessId |-> c.businessId, invoiceNumber |-> invoiceNumber], c)
    ELSE Call("lookup", "FIND_INVOICE_BY_ID_QUERY",
              [businessId |-> c.businessId, invoiceId |-> invoiceId], c)

\* lookupInvoice up to its call of waveGraphQLFetch
lookupInvoice(c, invoiceId, invoiceNumber) ==
    IF ~Not(invoiceId)
    THEN Call("lookup", "FIND_INVOICE_BY_ID_QUERY",
              [businessId |-> c.businessId, invoiceId |-> invoiceId], c)
    ELSE Call("lookup", "FIND_INVOICE_BY_NUMBER_QUERY",
              [businessId |-> c.businessId, invoiceNumber |-> invoiceNumber], c)

\* data.business?.invoice
BusinessInvoice(data) ==
    IF Nullish(data.business) THEN Undef ELSE data.business.invoice

\* lookupInvoice from the data its query returned: the invoice node or null
lookupInvoice_result(op, data) ==
    IF op = "FIND_INVOICE_BY_ID_QUERY" THEN Coalesce(BusinessInvoice(data), Null)
    ELSE IF Nullish(data.business) THEN Null
    ELSE IF Nullish(data.business.invoices) THEN Null
    ELSE IF data.business.invoices.edges = <<>> THEN Null
    ELSE Coalesce(data.business.invoices.edges[1].node, Null)

\* the catch around the calls of the add-payment handlers
AddPaymentCatch(msg) ==
    Respond("execute", 500,
            [error |-> "Unexpected error while adding payment to invoice in Wave",
             details |-> msg])

\* { error: 'Failed to register payment in Wave', details } with status 400
PaymentRejected(payload) ==
    Respond("execute", 400,
            [error |-> "Failed to register payment in Wave",
             details |-> IF Nullish(payload) THEN <<"Unknown error">>
                         ELSE IF Nullish(payload.inputErrors) THEN <<"Unknown error">>
                         ELSE Messages(payload.inputErrors.a)])

RefetchFailed ==
    Respond("execute", 500, [error |-> "Payment created but failed to refetch updated invoice"])

InvoiceNotFound == Respond("execute", 404, [error |-> "Invoice not found"])

POST_addPayment(rq, e) ==
    IF rq.method # "POST" THEN MethodNotAllowed
    ELSE IF SecretRejected(rq, e) THEN unauthorized
    ELSE IF rq.body = NotJson THEN InvalidJsonBody
    ELSE IF rq.body = Null THEN Crash("validate", NullBodyError)
    ELSE IF validateBody(rq.body) # ""
    THEN Respond("validate", 400, [error |-> validateBody(rq.body)])
    ELSE LET businessId == getBusinessIdFromKey(e, rq.body.businessKey.s)
         IN IF ~businessId.ok
            THEN Respond("resolve", 400, [error |-> "Invalid or missing businessKey"])
            ELSE lookupInvoice([NoCtx EXCEPT !.businessId = businessId.v],
                               rq.body.invoiceId, rq.body.invoiceNumber)

\* the handler from the completion out of the call it awaited
POST_addPayment_resume(rq, c, op, out) ==
    IF ~out.ok THEN AddPaymentCatch(out.msg)
    ELSE IF out.v = Null THEN AddPaymentCatch(NullBodyError)
    ELSE IF c.step = "lookup"
    THEN LET invoiceNode == lookupInvoice_result(op, out.v)
         IN IF invoiceNode = Null THEN InvoiceNotFound
            ELSE Call("mutation", "ADD_PAYMENT_MUTATION",
                      [input |-> [invoiceId |-> Str(invoiceNode.id),
                                  amount |-> rq.body.amount,
                                  paymentDate |-> OrElse(rq.body.paymentDate, Str(todayIsoDate)),
                                  paymentMethod |-> Coalesce(rq.body.paymentMethod, Str("CASH")),
                                  notes |-> IF Not(rq.body.notes) THEN Undef ELSE rq.body.notes]],
                      [c EXCEPT !.node = invoiceNode])
    ELSE IF c.step = "mutation"
    THEN LET payload == out.v.result
         IN IF Nullish(payload) THEN PaymentRejected(payload)
            ELSE IF ~payload.didSucceed \/ Nullish(payload.entity) THEN PaymentRejected(payload)
            ELSE IF Nullish(payload.entity.invoice) THEN AddPaymentCatch(NullBodyError)
            ELSE Call("refetch", "FIND_INVOICE_BY_ID_QUERY",
                      [businessId |-> c.businessId,
                       invoiceId |-> Str(payload.entity.invoice.id)],
                      [c EXCEPT !.entity = payload.entity])
    ELSE LET updatedInvoiceNode == BusinessInvoice(out.v)
         IN IF Nullish(updatedInvoiceNode) THEN RefetchFailed
            ELSE Respond("execute", 200,
                         [businessKey |-> rq.body.businessKey.s,
                          businessId |-> c.businessId,
                          payment |-> [id |-> c.entity.id, amount |-> rq.body.amount],
                          invoice |-> mapInvoiceNode(updatedInvoiceNode)])

(***************************************************************************)
(* add-payment without the re-fetch: the response is built from the        *)
(* mutation's payment                                                      *)
(***************************************************************************)
POST_addPayment_direct(rq, e) ==
    IF rq.method # "POST" THEN MethodNotAllowed
    ELSE IF SecretRejected(rq, e) THEN unauthorized
    ELSE IF rq.body = NotJson THEN InvalidJsonBody
    ELSE IF rq.body = Null THEN Crash("validate", NullBodyError)
    ELSE IF validateBody(rq.body) # ""
    THEN Respond("validate", 400, [error |-> validateBody(rq.body)])
    ELSE LET businessId == getBusinessIdFromKey(e, rq.body.businessKey.s)
         IN IF ~businessId.ok
            THEN Respond("resolve", 400, [error |-> "Invalid or missing businessKey"])
            ELSE lookupInvoice([NoCtx EXCEPT !.businessId = businessId.v],
                               rq.body.invoiceId, rq.body.invoiceNumber)

\* its catch gives no details
AddPaymentCatch_direct ==
    Respond("execute", 500,
            [error |-> "Unexpected error while adding payment to invoice in Wave"])

POST_addPayment_direct_resume(rq, c, op, out) ==
    IF ~out.ok THEN AddPaymentCatch_direct
    ELSE IF out.v = Null THEN AddPaymentCatch_direct
    ELSE IF c.step = "lookup"
    THEN LET invoiceNode == lookupInvoice_result(op, out.v)
         IN IF invoiceNode = Null THEN InvoiceNotFound
            ELSE Call("mutation", "ADD_PAYMENT_MUTATION",
                      [input |-> [invoiceId |-> Str(invoiceNode.id),
                                  amount |-> rq.body.amount,
                                  paymentDate |-> OrElse(rq.body.paymentDate, Str(todayIsoDate)),
                                  paymentMethod |-> Coalesce(rq.body.paymentMethod, Str("CASH")),
                                  notes |-> IF Not(rq.body.notes) THEN Undef ELSE rq.body.notes]],
                      [c EXCEPT !.node = invoiceNode])
    ELSE LET payload == out.v.result
         IN IF Nullish(payload) THEN PaymentRejected(payload)
            ELSE IF ~payload.didSucceed \/ Nullish(payload.entity) THEN PaymentRejected(payload)
            ELSE IF Nullish(payload.entity.invoice) THEN AddPaymentCatch_direct
            ELSE Respond("execute", 200,
                         [businessKey |-> rq.body.businessKey.s,
                          businessId |-> c.businessId,
                          payment |-> [id |-> payload.entity.id, amount |-> rq.body.amount],
                          invoice |-> mapInvoiceNode(payload.entity.invoice)])

(***************************************************************************)
(* add-payment as a money transaction: lookup, moneyTransactionCreate      *)
(* between the anchor account and the sales or income account, re-fetch    *)
(***************************************************************************)
\* { businessId, externalId, date, description, anchor, lineItems }
MoneyTransactionInput(c, externalId, date, description, amount) ==
    [businessId |-> c.businessId,
     externalId |-> externalId,
     date |-> date,
     description |-> description,
     anchor |-> [accountId |-> c.anchorAccountId, amount |-> amount, direction |-> "DEPOSIT"],
     lineItems |-> <<[accountId |-> c.otherAccountId, amount |-> amount,
                      balance |-> "INCREASE"]>>]

\* a variant that re-fetches whatever the mutation's payload says
MoneyPayment_afterMutation_unchecked(rq, c, out) ==
    IF c.step = "mutation"
    THEN Call("refetch", "FIND_INVOICE_BY_ID_QUERY",
              [businessId |-> c.businessId, invoiceId |-> Str(c.node.id)],
              [c EXCEPT !.entity = [t |-> "object", id |-> "new-1", invoice |-> Null]])
    ELSE LET updatedInvoiceNode == BusinessInvoice(out.v)
         IN IF Nullish(updatedInvoiceNode) THEN RefetchFailed
            ELSE Respond("execute", 200,
                         [businessKey |-> rq.body.businessKey.s,
                          businessId |-> c.businessId,
                          payment |-> [id |-> c.entity.id, amount |-> rq.body.amount],
                          invoice |-> mapInvoiceNode(updatedInvoiceNode)])

\* a variant that asks for the invoice again when the re-fetch gave none
MoneyPayment_afterMutation_retrying(rq, c, out) ==
    IF c.step = "mutation"
    THEN LET payload == out.v.result
         IN IF Nullish(payload) THEN PaymentRejected(payload)
            ELSE IF ~payload.didSucceed \/ Nullish(payload.entity) THEN PaymentRejected(payload)
            ELSE Call("refetch", "FIND_INVOICE_BY_ID_QUERY",
                      [businessId |-> c.businessId, invoiceId |-> Str(c.node.id)],
                      [c EXCEPT !.entity = payload.entity])
    ELSE LET updatedInvoiceNode == BusinessInvoice(out.v)
         IN IF Nullish(updatedInvoiceNode)
            THEN Call("refetch", "FIND_INVOICE_BY_ID_QUERY",
                      [businessId |-> c.businessId, invoiceId |-> Str(c.node.id)], c)
            ELSE Respond("execute", 200,
                         [businessKey |-> rq.body.businessKey.s,
                          businessId |-> c.businessId,
                          payment |-> [id |-> c.entity.id, amount |-> rq.body.amount],
                          invoice |-> mapInvoiceNode(updatedInvoiceNode)])

\* the part of both handlers after the mutation's call: payload check,
\* re-fetch of invoiceNode.id, response
MoneyPayment_afterMutation(rq, c, out) ==
    IF c.step = "mutation"
    THEN LET payload == out.v.result
         IN IF Nullish(payload) THEN PaymentRejected(payload)
            ELSE IF ~payload.didSucceed \/ Nullish(payload.entity) THEN PaymentRejected(payload)
            ELSE Call("refetch", "FIND_INVOICE_BY_ID_QUERY",
                      [businessId |-> c.businessId, invoiceId |-> Str(c.node.id)],
                      [c EXCEPT !.entity = payload.entity])
    ELSE LET updatedInvoiceNode == BusinessInvoice(out.v)
         IN IF Nullish(updatedInvoiceNode) THEN RefetchFailed
            ELSE Respond("execute", 200,
                         [businessKey |-> rq.body.businessKey.s,
                          businessId |-> c.businessId,
                          payment |-> [id |-> c.entity.id, amount |-> rq.body.amount],
                          invoice |-> mapInvoiceNode(updatedInvoiceNode)])

\* invoices/create/route.ts, second handler: getWavePaymentConfig
POST_addPayment_sales(rq, e) ==
    IF rq.method # "POST" THEN MethodNotAllowed
    ELSE IF SecretRejected(rq, e) THEN unauthorized
    ELSE IF rq.body = NotJson THEN InvalidJsonBody
    ELSE IF rq.body = Null THEN Crash("validate", NullBodyError)
    ELSE IF validateBody(rq.body) # ""
    THEN Respond("validate", 400, [error |-> validateBody(rq.body)])
    ELSE LET businessId == getBusinessIdFromKey(e, rq.body.businessKey.s)
             config == getWavePaymentConfig(e, rq.body.businessKey.s)
         IN IF ~businessId.ok \/ ~config.ok
            THEN Respond("resolve", 400, [error |-> "Invalid or missing business configuration"])
            ELSE lookupInvoice([NoCtx EXCEPT !.businessId = businessId.v,
                                             !.anchorAccountId = config.v.anchorAccountId,
                                             !.otherAccountId = config.v.otherAccountId],
                               rq.body.invoiceId, rq.body.invoiceNumber)

POST_addPayment_sales_resume(rq, c, op, out) ==
    IF ~out.ok THEN AddPaymentCatch(out.msg)
    ELSE IF out.v = Null THEN AddPaymentCatch(NullBodyError)
    ELSE IF c.step = "lookup"
    THEN LET invoiceNode == lookupInvoice_result(op, out.v)
         IN IF invoiceNode = Null THEN InvoiceNotFound
            ELSE Call("mutation", "MONEY_TRANSACTION_CREATE_MUTATION",
                      [input |-> MoneyTransactionInput(c,
                          "invoice:" \o (IF Nullish(invoiceNode.invoiceNumber)
                                         THEN invoiceNode.id
                                         ELSE invoiceNode.invoiceNumber.s),
                          OrElse(rq.body.paymentDate, Str(todayIsoDate)),
                          Coalesce(rq.body.notes,
                                   Str("Payment for invoice #"
                                       \o (IF Nullish(invoiceNode.invoiceNumber) THEN ""
                                           ELSE Trim(invoiceNode.invoiceNumber.s)))),
                          rq.body.amount)],
                      [c EXCEPT !.node = invoiceNode])
    ELSE MoneyPayment_afterMutation(rq, c, out)

\* the variant that books against the income account: getAccountIdsFromKey
POST_addPayment_income(rq, e) ==
    IF rq.method # "POST" THEN MethodNotAllowed
    ELSE IF SecretRejected(rq, e) THEN unauthorized
    ELSE IF rq.body = NotJson THEN InvalidJsonBody
    ELSE IF rq.body = Null THEN Crash("validate", NullBodyError)
    ELSE IF validateBody(rq.body) # ""
    THEN Respond("validate", 400, [error |-> validateBody(rq.body)])
    ELSE LET businessId == getBusinessIdFromKey(e, rq.body.businessKey.s)
             accountIds == getAccountIdsFromKey(e, rq.body.businessKey.s)
         IN IF ~businessId.ok \/ ~accountIds.ok
            THEN Respond("resolve", 400, [error |-> "Invalid or missing business configuration"])
            ELSE lookupInvoice([NoCtx EXCEPT !.businessId = businessId.v,
                                             !.anchorAccountId = accountIds.v.anchorAccountId,
                                             !.otherAccountId = accountIds.v.otherAccountId],
                               rq.body.invoiceId, rq.body.invoiceNumber)

POST_addPayment_income_resume(rq, c, op, out) ==
    IF ~out.ok THEN AddPaymentCatch(out.msg)
    ELSE IF out.v = Null THEN AddPaymentCatch(NullBodyError)
    ELSE IF c.step = "lookup"
    THEN LET invoiceNode == lookupInvoice_result(op, out.v)
         IN IF invoiceNode = Null THEN InvoiceNotFound
            ELSE Call("mutation", "MONEY_TRANSACTION_CREATE_MUTATION",
                      [input |-> MoneyTransactionInput(c, "invoice:" \o invoiceNode.id,
                          OrElse(rq.body.paymentDate, Str(todayIsoDate)),
                          Str("Invoice Payment"), rq.body.amount)],
                      [c EXCEPT !.node = invoiceNode])
    ELSE MoneyPayment_afterMutation(rq, c, out)

(***************************************************************************)
(* invoices/create: validate, resolve business and generic product,        *)
(* invoiceCreate                                                           *)
(***************************************************************************)
\* calendar dates <<year, month, day>> of the year the model's clock is in
DaysInMonth(m) == IF m = 2 THEN 29 ELSE IF m \in {4, 6, 9, 11} THEN 30 ELSE 31
Calendar == UNION {{<<2024, m, d>> : d \in 1..DaysInMonth(m)} : m \in 1..12}
Pad2(n) == IF n < 10 THEN "0" \o ToString(n) ELSE ToString(n)
\* date.toISOString().slice(0, 10)
IsoDate(date) == ToString(date[1]) \o "-" \o Pad2(date[2]) \o "-" \o Pad2(date[3])

\* addDaysUtc(baseDate, days): new Date(baseDate + 'T00:00:00Z'), setUTCDate,
\* toISOString; a string that is no date gives an Invalid Date, whose
\* toISOString throws
\* a variant that adds to the day of the month without rolling over
PlusDays_noRollOver(date, days) == <<date[1], date[2], date[3] + days>>

RECURSIVE PlusDays(_, _)
PlusDays(date, days) ==
    IF days = 0 THEN date
    ELSE IF date[3] < DaysInMonth(date[2]) THEN PlusDays(<<date[1], date[2], date[3] + 1>>, days - 1)
    ELSE IF date[2] < 12 THEN PlusDays(<<date[1], date[2] + 1, 1>>, days - 1)
    ELSE PlusDays(<<date[1] + 1, 1, 1>>, days - 1)
addDaysUtc(baseDate, days) ==
    LET parsed == {date \in Calendar : IsoDate(date) = baseDate}
    IN IF parsed = {} THEN Throw("RangeError: Invalid time value")
       ELSE Return(IsoDate(PlusDays(CHOOSE date \in parsed : TRUE, days)))

\* the loop over body.items of validateRequestBody, from index i on; finite
\* says whether the variant asks Number.isFinite or only excludes NaN
RECURSIVE ValidateItems(_, _, _)
ValidateItems(items, i, finite) ==
    IF i > Len(items) THEN ""
    ELSE LET item == items[i]
         IN IF \/ TypeOf(item.unitPrice) # "number"
               \/ (IF finite THEN ~IsFinite(item.unitPrice) ELSE IsNaN(item.unitPrice))
               \/ LeqZero(item.unitPrice)
            THEN "Invalid unitPrice for item " \o ToString(i - 1)
            ELSE IF /\ item.quantity # Undef
                    /\ \/ TypeOf(item.quantity) # "number"
                       \/ (finite /\ ~IsFinite(item.quantity))
                       \/ LeqZero(item.quantity)
            THEN "Invalid quantity for item " \o ToString(i - 1)
            ELSE ValidateItems(items, i + 1, finite)

\* validateRequestBody: the message of the Error it throws, "" when none
validateRequestBody(body, items, finite) ==
    IF InvalidBusinessKey(body) THEN "Invalid businessKey"
    ELSE IF Not(body.customerId) \/ TypeOf(body.customerId) # "string"
    THEN "Missing customerId"
    ELSE IF Trim(body.customerId.s) = "" THEN "Missing customerId"
    ELSE IF items.t # "array" THEN "Missing or invalid items"
    ELSE IF items.a = <<>> THEN "Missing or invalid items"
    ELSE ValidateItems(items.a, 1, finite)

\* a call of validateRequestBody: the message it throws and the body it
\* leaves behind (the function only reads its arguments)
validateRequestBody_run(body, finite) ==
    [result |-> validateRequestBody(body,
                    IF finite /\ body.items.t # "array" THEN Arr(<<>>) ELSE body.items, finite),
     body |-> body]

\* a variant that maps the first item only
WaveItems_firstOnly(items, productId) ==
    IF items = <<>> THEN <<>>
    ELSE <<[productId |-> productId,
            description |-> Coalesce(Head(items).description, Null),
            quantity |-> Coalesce(Head(items).quantity, Num(1)),
            unitPrice |-> Head(items).unitPrice]>>

\* body.items.map(item => ({productId, description, quantity, unitPrice}))
RECURSIVE WaveItems(_, _)
WaveItems(items, productId) ==
    IF items = <<>> THEN <<>>
    ELSE <<[productId |-> productId,
            description |-> Coalesce(Head(items).description, Null),
            quantity |-> Coalesce(Head(items).quantity, Num(1)),
            unitPrice |-> Head(items).unitPrice]>> \o WaveItems(Tail(items), productId)

\* the call of invoiceCreate with the input both variants build
InvoiceCreateCall(body, businessId, productId, dueDate) ==
    Call("mutation", "CREATE_INVOICE_MUTATION",
         [input |-> [businessId |-> businessId,
                     customerId |-> body.customerId,
                     status |-> "DRAFT",
                     currency |-> Coalesce(body.currency, Str("USD")),
                     invoiceDate |-> Coalesce(body.invoiceDate, Str(todayIsoDate)),
                     dueDate |-> dueDate,
                     items |-> WaveItems(body.items.a, productId),
                     memo |-> Coalesce(body.memo, Null)]],
         [NoCtx EXCEPT !.businessId = businessId, !.productId = productId])

InvoiceCreateCatch(msg) ==
    Respond("execute", 500,
            [error |-> "Unexpected error while creating invoice in Wave", details |-> msg])

\* the 200 of invoices/create from the invoice the mutation returned
InvoiceCreated(rq, c, invoice) ==
    Respond("execute", 200,
            [businessKey |-> rq.body.businessKey.s, businessId |-> c.businessId,
             customerId |-> rq.body.customerId.s, invoiceId |-> invoice.id,
             invoiceNumber |-> invoice.invoiceNumber,
             status |-> invoice.status,
             total |-> Coalesce(Opt(invoice.total, "value"), Null),
             amountDue |-> Coalesce(Opt(invoice.amountDue, "value"), Null),
             currency |-> Coalesce(Opt(Opt(invoice.total, "currency"), "code"), Null),
             invoiceDate |-> invoice.invoiceDate,
             dueDate |-> invoice.dueDate,
             viewUrl |-> invoice.viewUrl,
             pdfUrl |-> Coalesce(invoice.pdfUrl, Null)])

\* the variant's 200: with the customer's name and email, pdfUrl as given
InvoiceCreated_v2(rq, c, invoice) ==
    Respond("execute", 200,
            [businessKey |-> rq.body.businessKey.s, businessId |-> c.businessId,
             customerId |-> rq.body.customerId.s, invoiceId |-> invoice.id,
             invoiceNumber |-> invoice.invoiceNumber,
             status |-> invoice.status,
             invoiceDate |-> invoice.invoiceDate,
             dueDate |-> invoice.dueDate,
             total |-> Coalesce(Opt(invoice.total, "value"), Null),
             amountDue |-> Coalesce(Opt(invoice.amountDue, "value"), Null),
             currency |-> Coalesce(Opt(Opt(invoice.total, "currency"), "code"), Null),
             customerName |-> Coalesce(Opt(invoice.customer, "name"), Null),
             customerEmail |-> Coalesce(Opt(invoice.customer, "email"), Null),
             viewUrl |-> invoice.viewUrl,
             pdfUrl |-> invoice.pdfUrl])

POST_invoicesCreate(rq, e) ==
    IF rq.method # "POST" THEN MethodNotAllowed
    ELSE IF SecretRejected(rq, e) THEN unauthorized
    ELSE IF rq.body = NotJson THEN InvalidJsonBody
    ELSE IF rq.body = Null THEN Respond("validate", 400, [error |-> NullBodyError])
    ELSE IF validateRequestBody(rq.body, rq.body.items, FALSE) # ""
    THEN Respond("validate", 400,
                 [error |-> validateRequestBody(rq.body, rq.body.items, FALSE)])
    ELSE LET businessId == getBusinessIdFromKey(e, rq.body.businessKey.s)
             productId == getGenericProductId(e, rq.body.businessKey.s)
             invoiceDate == Coalesce(rq.body.invoiceDate, Str(todayIsoDate))
             due == addDaysUtc(invoiceDate.s, 7)
         IN IF ~businessId.ok THEN Respond("resolve", 400, [error |-> "Invalid businessKey"])
            ELSE IF ~productId.ok THEN Respond("resolve", 500, [error |-> productId.msg])
            ELSE IF ~Nullish(rq.body.dueDate)
            THEN InvoiceCreateCall(rq.body, businessId.v, productId.v, rq.body.dueDate)
            ELSE IF ~due.ok THEN Crash("execute", due.msg)
            ELSE InvoiceCreateCall(rq.body, businessId.v, productId.v, Str(due.v))

POST_invoicesCreate_resume(rq, c, op, out) ==
    IF ~out.ok THEN InvoiceCreateCatch(out.msg)
    ELSE IF out.v = Null THEN InvoiceCreateCatch(NullBodyError)
    ELSE LET result == out.v.result
         IN IF Nullish(result) THEN InvoiceCreateCatch(NullBodyError)
            ELSE IF Nullish(result.inputErrors) THEN InvoiceCreateCatch(NullBodyError)
            ELSE IF \/ ~result.didSucceed
                    \/ Len(result.inputErrors.a) > 0
                    \/ Nullish(result.entity)
            THEN Respond("execute", 500,
                         [error |-> "Wave invoiceCreate failed",
                          inputErrors |-> Messages(result.inputErrors.a)])
            ELSE InvoiceCreated(rq, c, result.entity)

\* the variant whose whole body is inside one try, with Number.isFinite
POST_invoicesCreate_v2(rq, e) ==
    IF rq.method # "POST" THEN MethodNotAllowed
    ELSE IF SecretRejected(rq, e) THEN unauthorized
    ELSE IF rq.body = NotJson THEN InvalidJsonBody
    ELSE IF rq.body = Null
    THEN [InvoiceCreateCatch(NullBodyError) EXCEPT !.at = "validate"]
    ELSE LET items == IF rq.body.items.t = "array" THEN rq.body.items ELSE Arr(<<>>)
             businessId == getBusinessIdFromKey(e, rq.body.businessKey.s)
             productId == getGenericProductId_v2(e, rq.body.businessKey.s)
             invoiceDate == Coalesce(rq.body.invoiceDate, Str(todayIsoDate))
             due == addDaysUtc(invoiceDate.s, 7)
         IN IF validateRequestBody(rq.body, items, TRUE) # ""
            THEN Respond("validate", 400, [error |-> validateRequestBody(rq.body, items, TRUE)])
            ELSE IF ~businessId.ok THEN Respond("resolve", 400, [error |-> "Invalid businessKey"])
            ELSE IF ~productId.ok THEN Respond("resolve", 500, [error |-> productId.msg])
            ELSE IF ~Nullish(rq.body.dueDate)
            THEN InvoiceCreateCall(rq.body, businessId.v, productId.v, rq.body.dueDate)
            ELSE IF ~due.ok THEN InvoiceCreateCatch(due.msg)
            ELSE InvoiceCreateCall(rq.body, businessId.v, productId.v, Str(due.v))

POST_invoicesCreate_v2_resume(rq, c, op, out) ==
    IF ~out.ok THEN InvoiceCreateCatch(out.msg)
    ELSE IF out.v = Null THEN InvoiceCreateCatch(NullBodyError)
    ELSE LET result == out.v.result
             inputErrors == IF Nullish(result) THEN <<>>
                            ELSE IF Nullish(result.inputErrors) THEN <<>>
                            ELSE result.inputErrors.a
         IN IF Nullish(result)
            THEN Respond("execute", 500,
                         [error |-> "Wave invoiceCreate failed", inputErrors |-> inputErrors])
            ELSE IF ~result.didSucceed \/ Len(inputErrors) > 0 \/ Nullish(result.entity)
            THEN Respond("execute", 500,
                         [error |-> "Wave invoiceCreate failed", inputErrors |-> inputErrors])
            ELSE InvoiceCreated_v2(rq, c, result.entity)

(***************************************************************************)
(* invoices/approve                                                        *)
(***************************************************************************)
ApproveCatch(at, msg) ==
    Respond(at, 500,
            [error |-> "Unexpected error while approving invoice in Wave", details |-> msg])

POST_invoicesApprove(rq, e) ==
    IF rq.method # "POST" THEN MethodNotAllowed
    ELSE IF SecretRejected(rq, e) THEN unauthorized
    ELSE IF rq.body = NotJson THEN InvalidJsonBody
    ELSE IF rq.body = Null THEN ApproveCatch("validate", NullBodyError)
    ELSE IF InvalidBusinessKey(rq.body)
    THEN Respond("validate", 400, [error |-> "Invalid businessKey"])
    ELSE IF Not(rq.body.invoiceId) \/ TypeOf(rq.body.invoiceId) # "string"
    THEN Respond("validate", 400, [error |-> "invoiceId is required"])
    ELSE IF Trim(rq.body.invoiceId.s) = ""
    THEN Respond("validate", 400, [error |-> "invoiceId is required"])
    ELSE LET businessId == getBusinessIdFromKey(e, rq.body.businessKey.s)
         IN IF ~businessId.ok THEN Respond("resolve", 400, [error |-> "Invalid businessKey"])
            ELSE Call("mutation", "INVOICE_APPROVE_MUTATION",
                      [input |-> [invoiceId |-> rq.body.invoiceId]],
                      [NoCtx EXCEPT !.businessId = businessId.v])

POST_invoicesApprove_resume(rq, c, op, out) ==
    IF ~out.ok THEN ApproveCatch("execute", out.msg)
    ELSE IF out.v = Null THEN ApproveCatch("execute", NullBodyError)
    ELSE LET result == out.v.result
             inputErrors == IF Nullish(result.inputErrors) THEN <<>> ELSE result.inputErrors.a
         IN IF Nullish(result)
            THEN Respond("execute", 500, [error |-> "Wave invoiceApprove returned no result"])
            ELSE IF ~result.didSucceed \/ Len(inputErrors) > 0
            THEN Respond("execute", 500,
                         [error |-> "Wave invoiceApprove failed", inputErrors |-> inputErrors])
            ELSE IF Nullish(result.entity)
            THEN Respond("execute", 500,
                         [error |-> "Wave invoiceApprove did not return an invoice"])
            ELSE Respond("execute", 200,
                         [businessKey |-> rq.body.businessKey.s, businessId |-> c.businessId,
                          invoiceId |-> result.entity.id])

(***************************************************************************)
(* transactions/create: the whole handler is inside one try                *)
(***************************************************************************)
TransactionCatch(at, msg) ==
    Respond(at, 500,
            [error |-> "Unexpected error while creating money transaction in Wave",
             details |-> msg])

\* (value && value.trim()) || fallback, for an optional string of the body
TrimmedOr(value, fallback) ==
    IF Not(value) THEN fallback
    ELSE IF Trim(value.s) = "" THEN fallback
    ELSE Trim(value.s)

POST_transactionsCreate(rq, e) ==
    IF rq.method # "POST" THEN MethodNotAllowed
    ELSE IF SecretRejected(rq, e) THEN unauthorized
    ELSE IF rq.body = NotJson THEN InvalidJsonBody
    ELSE IF rq.body = Null THEN TransactionCatch("validate", NullBodyError)
    ELSE LET body == rq.body
             amount == IF TypeOf(body.amount) = "number" THEN body.amount ELSE NaN
             direction == Coalesce(body.direction, Str("DEPOSIT"))
             balanceDirection == Coalesce(body.balanceDirection, Str("INCREASE"))
             businessId == getBusinessIdFromKey(e, body.businessKey.s)
             anchorEnv == getAnchorAccountIdFromEnv(e, body.businessKey.s)
             lineItemEnv == getLineItemAccountIdFromEnv(e, body.businessKey.s)
             anchorGiven == TrimmedOr(body.anchorAccountId, "")
             lineItemGiven == TrimmedOr(body.lineItemAccountId, "")
         IN IF body.businessKey \notin {Str(k) : k \in BusinessKeys}
            THEN Respond("validate", 400, [error |-> "Invalid businessKey"])
            ELSE IF ~IsFinite(amount) \/ LeqZero(amount)
            THEN Respond("validate", 400, [error |-> "amount must be a positive number"])
            ELSE IF direction \notin {Str("DEPOSIT"), Str("WITHDRAWAL")}
            THEN Respond("validate", 400, [error |-> "direction must be DEPOSIT or WITHDRAWAL"])
            ELSE IF balanceDirection \notin {Str("INCREASE"), Str("DECREASE")}
            THEN Respond("validate", 400,
                         [error |-> "balanceDirection must be INCREASE or DECREASE"])
            ELSE IF ~businessId.ok
            THEN Respond("resolve", 400, [error |-> "Invalid businessKey"])
            ELSE IF anchorGiven = "" /\ ~anchorEnv.ok
            THEN TransactionCatch("resolve", anchorEnv.msg)
            ELSE IF lineItemGiven = "" /\ ~lineItemEnv.ok
            THEN TransactionCatch("resolve", lineItemEnv.msg)
            ELSE Call("mutation", "MONEY_TRANSACTION_CREATE_MUTATION",
                      [input |->
                        [businessId |-> businessId.v,
                         externalId |-> IF Nullish(body.externalId) THEN Undef
                                        ELSE IF Trim(body.externalId.s) = "" THEN Undef
                                        ELSE Str(Trim(body.externalId.s)),
                         date |-> TrimmedOr(body.date, todayIsoDate),
                         description |->
                            TrimmedOr(Coalesce(body.description, Str("API Transaction")),
                                      "API Transaction"),
                         anchor |-> [accountId |-> IF anchorGiven = "" THEN anchorEnv.v
                                                   ELSE anchorGiven,
                                     amount |-> amount, direction |-> direction.s],
                         lineItems |-> <<[accountId |-> IF lineItemGiven = "" THEN lineItemEnv.v
                                                        ELSE lineItemGiven,
                                          amount |-> amount,
                                          balance |-> balanceDirection.s]>>]],
                      [NoCtx EXCEPT !.businessId = businessId.v,
                                    !.anchorAccountId = IF anchorGiven = "" THEN anchorEnv.v
                                                        ELSE anchorGiven,
                                    !.otherAccountId = IF lineItemGiven = "" THEN lineItemEnv.v
                                                       ELSE lineItemGiven])

POST_transactionsCreate_resume(rq, c, op, out) ==
    IF ~out.ok THEN TransactionCatch("execute", out.msg)
    ELSE IF out.v = Null THEN TransactionCatch("execute", NullBodyError)
    ELSE LET result == out.v.result
             inputErrors == IF Nullish(result.inputErrors) THEN <<>> ELSE result.inputErrors.a
         IN IF Nullish(result)
            THEN Respond("execute", 500,
                         [error |-> "Wave moneyTransactionCreate returned no result"])
            ELSE IF ~result.didSucceed \/ Len(inputErrors) > 0 \/ Nullish(result.entity)
            THEN Respond("execute", 400,
                         [error |-> "Wave moneyTransactionCreate failed",
                          inputErrors |-> inputErrors])
            ELSE Respond("execute", 200,
                         [businessKey |-> rq.body.businessKey.s, businessId |-> c.businessId,
                          transaction |-> [id |-> result.entity.id,
                                           amount |-> rq.body.amount,
                                           anchorAccountId |-> c.anchorAccountId,
                                           lineItemAccountId |-> c.otherAccountId]])

(***************************************************************************)
(* customers/ensure: list the customers, return a match or create one      *)
(***************************************************************************)
\* s.toLowerCase() of the strings the model's customers and requests carry
Lower(s) ==
    CASE s = "Ana Maria" -> "ana maria"
      [] s = "Ana" -> "ana"
      [] s = "ANA@X.COM" -> "ana@x.com"
      [] s = "Bob" -> "bob"
      [] s = "Cy" -> "cy"
      [] s = "Dee" -> "dee"
      [] OTHER -> s
\* hay.includes(needle) of those strings, lower-cased
Includes(hay, needle) ==
    \/ needle = "" \/ hay = needle
    \/ <<hay, needle>> \in {<<"ana maria", "ana">>, <<"555-1234", "1234">>}

\* normalizeString: (value ?? '').trim()
normalizeString(value) == IF Nullish(value) THEN "" ELSE Trim(value.s)

\* obj.field of an object that may not have the field
Field(obj, field) == IF field \in DOMAIN obj THEN obj[field] ELSE Undef

\* the customer of a response: { id, name, email ?? null, phone?.number ?? null }
mapCustomerNode(node) ==
    [id |-> node.id,
     name |-> Field(node, "name"),
     email |-> Coalesce(Field(node, "email"), Null),
     phone |-> Coalesce(Opt(Field(node, "phone"), "number"), Null)]

\* a variant that compares the customer's fields as Wave spells them
CustomerMatches_asSpelled(customer, emailInput, nameInput, phoneInput) ==
    LET customerEmail == IF Nullish(customer.email) THEN "" ELSE customer.email.s
        customerName == IF Nullish(customer.name) THEN "" ELSE customer.name.s
        customerPhone == IF Nullish(customer.phone) THEN "" ELSE customer.phone.s
    IN \/ Lower(emailInput) # "" /\ customerEmail = Lower(emailInput)
       \/ Lower(nameInput) # "" /\ Includes(customerName, Lower(nameInput))
       \/ Lower(phoneInput) # "" /\ Includes(customerPhone, Lower(phoneInput))

\* the callback of customersMapped.find
CustomerMatches(customer, emailInput, nameInput, phoneInput) ==
    LET customerEmail == Lower(IF Nullish(customer.email) THEN "" ELSE customer.email.s)
        customerName == Lower(IF Nullish(customer.name) THEN "" ELSE customer.name.s)
        customerPhone == Lower(IF Nullish(customer.phone) THEN "" ELSE customer.phone.s)
    IN \/ Lower(emailInput) # "" /\ customerEmail = Lower(emailInput)
       \/ Lower(nameInput) # "" /\ Includes(customerName, Lower(nameInput))
       \/ Lower(phoneInput) # "" /\ Includes(customerPhone, Lower(phoneInput))

CustomersCatch(msg) ==
    Respond("execute", 500,
            [error |-> "Unexpected error in customers endpoint", details |-> msg])

\* data.business?.<field> of a list query's data
BusinessField(data, field) ==
    IF Nullish(data.business) THEN Undef ELSE data.business[field]

POST_customersEnsure(rq, e) ==
    IF rq.method # "POST" THEN MethodNotAllowed
    ELSE IF SecretRejected(rq, e) THEN unauthorized
    ELSE IF rq.body = NotJson THEN InvalidJsonBody
    ELSE IF rq.body = Null THEN Crash("validate", NullBodyError)
    ELSE IF InvalidBusinessKey(rq.body)
    THEN Respond("validate", 400, [error |-> "Invalid businessKey"])
    ELSE IF normalizeString(rq.body.name) = "" /\ normalizeString(rq.body.email) = ""
    THEN Respond("validate", 400, [error |-> "Either name or email must be provided"])
    ELSE LET businessId == getBusinessIdFromKey(e, rq.body.businessKey.s)
         IN IF ~businessId.ok THEN Respond("resolve", 400, [error |-> "Invalid businessKey"])
            ELSE Call("list", "LIST_CUSTOMERS_QUERY",
                      [businessId |-> businessId.v, page |-> Num(1), pageSize |-> Num(200)],
                      [NoCtx EXCEPT !.businessId = businessId.v])

POST_customersEnsure_resume(rq, c, op, out) ==
    LET nameInput == normalizeString(rq.body.name)
        emailInput == normalizeString(rq.body.email)
        phoneInput == normalizeString(rq.body.phone)
    IN IF ~out.ok THEN CustomersCatch(out.msg)
       ELSE IF out.v = Null THEN CustomersCatch(NullBodyError)
       ELSE IF c.step = "list"
       THEN LET customersData == BusinessField(out.v, "customers")
                edges == customersData.edges
                customersMapped == [i \in 1..Len(edges) |-> mapCustomerNode(edges[i].node)]
                found == {i \in 1..Len(edges) :
                            CustomerMatches(customersMapped[i], emailInput, nameInput, phoneInput)}
            IN IF Nullish(customersData)
               THEN Respond("execute", 500, [error |-> "Failed to list customers from Wave"])
               ELSE IF found # {}
               THEN Respond("execute", 200,
                            [businessKey |-> rq.body.businessKey.s,
                             businessId |-> c.businessId, created |-> FALSE,
                             customer |->
                                 customersMapped[CHOOSE i \in found : \A j \in found : i <= j]])
               ELSE Call("mutation", "CUSTOMER_CREATE_MUTATION",
                         [input |-> [businessId |-> c.businessId,
                                     name |-> IF nameInput # "" THEN nameInput ELSE emailInput,
                                     email |-> IF emailInput # "" THEN Str(emailInput) ELSE Undef,
                                     phone |-> IF phoneInput # ""
                                               THEN [t |-> "object", number |-> Str(phoneInput)]
                                               ELSE Undef]],
                         c)
       ELSE LET customerCreate == out.v.result
                inputErrors == IF Nullish(customerCreate) THEN <<>>
                               ELSE IF Nullish(customerCreate.inputErrors) THEN <<>>
                               ELSE customerCreate.inputErrors.a
                failed == Respond("execute", 500,
                                  [error |-> "Wave customerCreate failed",
                                   inputErrors |-> inputErrors])
            IN IF Nullish(customerCreate) THEN failed
               ELSE IF \/ ~customerCreate.didSucceed
                       \/ Nullish(customerCreate.entity)
                       \/ Len(inputErrors) > 0
               THEN failed
               ELSE Respond("execute", 200,
                            [businessKey |-> rq.body.businessKey.s,
                             businessId |-> c.businessId, created |-> TRUE,
                             customer |-> mapCustomerNode(customerCreate.entity)])

(***************************************************************************)
(* The list endpoints: one query, then the page of the response.  The      *)
(* model's requests carry no search text.                                  *)
(***************************************************************************)
\* v < 1 for a number v
LtOne(v) == v.k = "-inf" \/ (v.k = "finite" /\ v.n < 1)

\* Math.min(Math.max(v, 1), 100) for a number v
Clamp(v) ==
    CASE v.k = "nan" -> NaN
      [] v.k = "inf" -> Num(100)
      [] v.k = "-inf" -> Num(1)
      [] OTHER -> Num(IF v.n < 1 THEN 1 ELSE IF v.n > 100 THEN 100 ELSE v.n)

\* a variant that checks the secret before the method
ListPrologue_secretFirst(rq, e, keyError) ==
    IF SecretRejected(rq, e) THEN unauthorized
    ELSE IF rq.method # "POST" THEN MethodNotAllowed
    ELSE IF rq.body = NotJson THEN InvalidJsonBody
    ELSE IF rq.body = Null THEN Crash("validate", NullBodyError)
    ELSE IF InvalidBusinessKey(rq.body) THEN Respond("validate", 400, [error |-> keyError])
    ELSE [k |-> "continue"]

\* the prologue of the list endpoints and of summary/month: method, secret,
\* JSON, then the body's businessKey (a null body has no properties to read)
ListPrologue(rq, e, keyError) ==
    IF rq.method # "POST" THEN MethodNotAllowed
    ELSE IF SecretRejected(rq, e) THEN unauthorized
    ELSE IF rq.body = NotJson THEN InvalidJsonBody
    ELSE IF rq.body = Null THEN Crash("validate", NullBodyError)
    ELSE IF InvalidBusinessKey(rq.body) THEN Respond("validate", 400, [error |-> keyError])
    ELSE [k |-> "continue"]

\* a list endpoint after its query returned: the page, the response for a
\* missing business or collection, or caught, the response of its catch
ListPage(rq, c, out, field, caught, noBusiness, noCollection, page) ==
    IF ~out.ok \/ out.v = Null THEN caught
    ELSE IF Nullish(out.v.business) THEN noBusiness
    ELSE IF Nullish(out.v.business[field]) THEN noCollection
    ELSE page

\* the page of a list endpoint whose items the model does not follow
Counted(rq, c, out, field) ==
    Respond("execute", 200,
            [businessKey |-> rq.body.businessKey.s, businessId |-> c.businessId,
             count |-> Len(out.v.business[field].edges)])

POST_invoicesList(rq, e) ==
    LET pre == ListPrologue(rq, e, "Invalid businessKey")
        page == IF TypeOf(rq.body.page) = "number" THEN rq.body.page ELSE Num(1)
        pageSize == IF TypeOf(rq.body.pageSize) = "number" THEN rq.body.pageSize ELSE Num(50)
        businessId == getBusinessIdFromKey(e, rq.body.businessKey.s)
    IN IF pre.k # "continue" THEN pre
       ELSE IF LtOne(page) \/ LtOne(pageSize)
       THEN Respond("validate", 400,
                    [error |-> "page and pageSize must be greater than or equal to 1"])
       ELSE IF ~businessId.ok THEN Respond("resolve", 400, [error |-> "Invalid businessKey"])
       ELSE Call("list", "LIST_INVOICES_QUERY",
                 [businessId |-> businessId.v, page |-> page, pageSize |-> pageSize,
                  status |-> IF Not(rq.body.status) THEN Undef ELSE rq.body.status],
                 [NoCtx EXCEPT !.businessId = businessId.v])

InvoicesListCatch(msg) ==
    Respond("execute", 500, [error |-> "Failed to fetch invoices from Wave", details |-> msg])

\* the item of the response for one node of the page
InvoiceListItem(node) ==
    [id |-> node.id,
     invoiceNumber |-> Coalesce(node.invoiceNumber, Null),
     status |-> node.status,
     invoiceDate |-> Coalesce(node.invoiceDate, Null),
     dueDate |-> Coalesce(node.dueDate, Null),
     total |-> Coalesce(Opt(node.total, "value"), Num(0)),
     amountDue |-> Coalesce(Opt(node.amountDue, "value"), Num(0)),
     currency |-> Coalesce(Opt(node.currency, "code"),
                           Coalesce(Opt(Opt(node.total, "currency"), "code"), Null)),
     customerName |-> Coalesce(Opt(node.customer, "name"), Null),
     viewUrl |-> Coalesce(node.viewUrl, Null)]

\* the 200 of invoices/list: the mapped items, then pageInfo's counts (a
\* page without pageInfo throws into the catch)
InvoicesListed(rq, c, invoicesData) ==
    IF Nullish(invoicesData.pageInfo)
    THEN InvoicesListCatch("TypeError: Cannot read properties of null (reading 'totalCount')")
    ELSE Respond("execute", 200,
                 [businessKey |-> rq.body.businessKey.s, businessId |-> c.businessId,
                  page |-> IF TypeOf(rq.body.page) = "number" THEN rq.body.page ELSE Num(1),
                  pageSize |-> IF TypeOf(rq.body.pageSize) = "number" THEN rq.body.pageSize
                               ELSE Num(50),
                  totalCount |-> invoicesData.pageInfo.totalCount,
                  totalPages |-> invoicesData.pageInfo.totalPages,
                  invoices |-> [i \in 1..Len(invoicesData.edges) |->
                                   InvoiceListItem(invoicesData.edges[i].node)]])

POST_invoicesList_resume(rq, c, op, out) ==
    ListPage(rq, c, out, "invoices", InvoicesListCatch(IF out.ok THEN NullBodyError ELSE out.msg),
             Respond("execute", 400, [error |-> "Invalid businessKey"]),
             Respond("execute", 200,
                     [businessKey |-> rq.body.businessKey.s, businessId |-> c.businessId,
                      page |-> IF TypeOf(rq.body.page) = "number" THEN rq.body.page ELSE Num(1),
                      pageSize |-> IF TypeOf(rq.body.pageSize) = "number" THEN rq.body.pageSize
                                   ELSE Num(50),
                      totalCount |-> Num(0), totalPages |-> Num(0), invoices |-> <<>>]),
             InvoicesListed(rq, c, out.v.business.invoices))

\* the variant with limit, customerSearch and a date range
POST_invoicesList_v2(rq, e) ==
    LET pre == ListPrologue(rq, e, "Invalid or missing businessKey")
        limit == IF TypeOf(rq.body.limit) = "number" THEN rq.body.limit ELSE Num(20)
        businessId == getBusinessIdFromKey(e, rq.body.businessKey.s)
    IN IF pre.k # "continue" THEN pre
       ELSE IF ~businessId.ok
       THEN Respond("resolve", 500, [error |-> "Failed to fetch invoices from Wave"])
       ELSE Call("list", "LIST_INVOICES_QUERY",
                 [businessId |-> businessId.v, page |-> Num(1), pageSize |-> Clamp(limit),
                  status |-> rq.body.status],
                 [NoCtx EXCEPT !.businessId = businessId.v])

InvoicesListCatch_v2(msg) ==
    Respond("execute", 500, [error |-> "Failed to fetch invoices from Wave"])

POST_invoicesList_v2_resume(rq, c, op, out) ==
    ListPage(rq, c, out, "invoices", InvoicesListCatch_v2(IF out.ok THEN NullBodyError ELSE out.msg),
             InvoicesListCatch_v2(""), InvoicesListCatch_v2(""),
             Counted(rq, c, out, "invoices"))

\* summary/month: the invoices of one month, summed and counted
POST_summaryMonth(rq, e) ==
    LET pre == ListPrologue(rq, e, "Invalid businessKey")
        year == rq.body.year
        month == rq.body.month
        businessId == getBusinessIdFromKey(e, rq.body.businessKey.s)
    IN IF pre.k # "continue" THEN pre
       ELSE IF TypeOf(year) # "number" \/ TypeOf(month) # "number"
       THEN Respond("validate", 400, [error |-> "year and month are required"])
       ELSE IF LtOne(month) \/ month.k = "inf" \/ (month.k = "finite" /\ month.n > 12)
       THEN Respond("validate", 400, [error |-> "Invalid month. Must be between 1 and 12"])
       ELSE IF ~IsFinite(year) \/ ~IsFinite(month)
       THEN Crash("validate", "RangeError: Invalid time value")
       ELSE IF ~businessId.ok THEN Respond("resolve", 400, [error |-> "Invalid businessKey"])
       ELSE Call("list", "MONTHLY_SUMMARY_QUERY",
                 [businessId |-> businessId.v, page |-> Num(1), pageSize |-> Num(200),
                  startDate |-> IsoDate(<<year.n, month.n, 1>>),
                  endDate |-> IsoDate(<<year.n, month.n, DaysInMonth(month.n)>>)],
                 [NoCtx EXCEPT !.businessId = businessId.v])

SummaryCatch(msg) ==
    Respond("execute", 500,
            [error |-> "Failed to fetch monthly invoices from Wave", details |-> msg])

\* totals, counts and currency before the first invoice
SummaryStart ==
    [totals |-> [totalInvoiced |-> 0, totalPaid |-> 0, totalOutstanding |-> 0],
     counts |-> [draftCount |-> 0, approvedCount |-> 0, sentCount |-> 0, paidCount |-> 0,
                 overdueCount |-> 0],
     currency |-> Null]

\* a variant that counts the whole total as paid
SummaryStep_paidInFull(acc, node) ==
    LET totalAmount == Coalesce(Opt(node.total, "value"), Num(0)).n
        amountDue == Coalesce(Opt(node.amountDue, "value"), Num(0)).n
    IN [acc EXCEPT !.totals.totalInvoiced = @ + totalAmount,
                   !.totals.totalPaid = @ + totalAmount,
                   !.totals.totalOutstanding = @ + amountDue]

\* the body of edges.forEach: the amounts added, the currency of the first
\* invoice that has one, the count of the node's status
SummaryStep(acc, node) ==
    LET totalAmount == Coalesce(Opt(node.total, "value"), Num(0)).n
        amountDue == Coalesce(Opt(node.amountDue, "value"), Num(0)).n
        code == Opt(Opt(node.total, "currency"), "code")
        counter == CASE node.status = Str("DRAFT") -> "draftCount"
                     [] node.status = Str("APPROVED") -> "approvedCount"
                     [] node.status = Str("SENT") -> "sentCount"
                     [] node.status = Str("PAID") -> "paidCount"
                     [] node.status = Str("OVERDUE") -> "overdueCount"
                     [] OTHER -> ""
    IN [acc EXCEPT !.totals.totalInvoiced = @ + totalAmount,
                   !.totals.totalPaid = @ + (totalAmount - amountDue),
                   !.totals.totalOutstanding = @ + amountDue,
                   !.currency = IF Not(@) /\ ~Not(code) THEN code ELSE @,
                   !.counts = IF counter = "" THEN @ ELSE [@ EXCEPT ![counter] = @ + 1]]

\* edges.forEach from the i-th edge on
RECURSIVE SummaryFold(_, _, _)
SummaryFold(edges, i, acc) ==
    IF i > Len(edges) THEN acc
    ELSE SummaryFold(edges, i + 1, SummaryStep(acc, edges[i].node))

\* the 200 of summary/month
Summarised(rq, c, invoicesData) ==
    LET summary == SummaryFold(invoicesData.edges, 1, SummaryStart)
        year == rq.body.year.n
        month == rq.body.month.n
    IN Respond("execute", 200,
               [businessKey |-> rq.body.businessKey.s, businessId |-> c.businessId,
                year |-> rq.body.year, month |-> rq.body.month,
                period |-> [startDate |-> IsoDate(<<year, month, 1>>),
                            endDate |-> IsoDate(<<year, month, DaysInMonth(month)>>)],
                totals |-> summary.totals,
                counts |-> summary.counts @@ [totalInvoices |-> Len(invoicesData.edges)],
                currency |-> summary.currency])

POST_summaryMonth_resume(rq, c, op, out) ==
    ListPage(rq, c, out, "invoices", SummaryCatch(IF out.ok THEN NullBodyError ELSE out.msg),
             Respond("execute", 500, [error |-> "Failed to fetch monthly invoices from Wave"]),
             Respond("execute", 500, [error |-> "Failed to fetch monthly invoices from Wave"]),
             Summarised(rq, c, out.v.business.invoices))

\* products/list
POST_productsList(rq, e) ==
    LET pre == ListPrologue(rq, e, "Invalid businessKey")
        page == IF TypeOf(rq.body.page) = "number"
                THEN (IF IsNaN(rq.body.page) \/ LtOne(rq.body.page) THEN Num(1)
                      ELSE rq.body.page)
                ELSE Num(1)
        pageSize == IF TypeOf(rq.body.pageSize) = "number" THEN rq.body.pageSize ELSE Num(50)
        businessId == getBusinessIdFromKey(e, rq.body.businessKey.s)
    IN IF pre.k # "continue" THEN pre
       ELSE IF ~businessId.ok THEN Respond("resolve", 400, [error |-> "Invalid businessKey"])
       ELSE Call("list", "LIST_PRODUCTS_QUERY",
                 [businessId |-> businessId.v, page |-> page, pageSize |-> Clamp(pageSize)],
                 [NoCtx EXCEPT !.businessId = businessId.v])

ProductsListCatch(msg) ==
    Respond("execute", 500, [error |-> "Failed to list products from Wave"])

POST_productsList_resume(rq, c, op, out) ==
    ListPage(rq, c, out, "products", ProductsListCatch(IF out.ok THEN NullBodyError ELSE out.msg),
             ProductsListCatch(""), ProductsListCatch(""),
             Counted(rq, c, out, "products"))

\* the customers list
POST_customersList(rq, e) ==
    LET pre == ListPrologue(rq, e, "Invalid businessKey")
        page == IF TypeOf(rq.body.page) = "number"
                THEN (IF IsNaN(rq.body.page) \/ LtOne(rq.body.page) THEN Num(1)
                      ELSE rq.body.page)
                ELSE Num(1)
        pageSize == IF TypeOf(rq.body.pageSize) = "number"
                    THEN (IF /\ IsFinite(rq.body.pageSize)
                             /\ rq.body.pageSize.n >= 1
                             /\ rq.body.pageSize.n <= 100
                          THEN rq.body.pageSize
                          ELSE Num(50))
                    ELSE Num(50)
        businessId == getBusinessIdFromKey(e, rq.body.businessKey.s)
    IN IF pre.k # "continue" THEN pre
       ELSE IF ~businessId.ok THEN Respond("resolve", 400, [error |-> "Invalid businessKey"])
       ELSE Call("list", "LIST_CUSTOMERS_QUERY",
                 [businessId |-> businessId.v, page |-> page, pageSize |-> pageSize],
                 [NoCtx EXCEPT !.businessId = businessId.v])

CustomersListCatch(msg) ==
    Respond("execute", 500, [error |-> "Failed to list customers from Wave"])

POST_customersList_resume(rq, c, op, out) ==
    ListPage(rq, c, out, "customers", CustomersListCatch(IF out.ok THEN NullBodyError ELSE out.msg),
             CustomersListCatch(""), CustomersListCatch(""),
             Counted(rq, c, out, "customers"))

(***************************************************************************)
(* products/update and the product creation                                *)
(***************************************************************************)
ProductsCatch(msg) ==
    Respond("execute", 500,
            [error |-> "Unexpected error in products endpoint", details |-> msg])

\* both handlers after their mutation returned; name is productUpdate or
\* productCreate
ProductMutated(rq, c, out, name) ==
    IF ~out.ok THEN ProductsCatch(out.msg)
    ELSE IF out.v = Null THEN ProductsCatch(NullBodyError)
    ELSE LET result == out.v.result
             inputErrors == IF Nullish(result) THEN <<>>
                            ELSE IF Nullish(result.inputErrors) THEN <<>>
                            ELSE result.inputErrors.a
             failed == Respond("execute", 500,
                               [error |-> "Wave " \o name \o " failed",
                                inputErrors |-> inputErrors])
         IN IF Nullish(result) THEN failed
            ELSE IF ~result.didSucceed \/ Len(inputErrors) > 0 \/ Nullish(result.entity)
            THEN failed
            ELSE Respond("execute", 200,
                         [businessKey |-> rq.body.businessKey.s, businessId |-> c.businessId,
                          product |-> result.entity])

\* for an optional field of type ty: the value when it has the type
OfType(v, ty) == IF TypeOf(v) = ty THEN v ELSE Undef

POST_productsUpdate(rq, e) ==
    LET pre == ListPrologue(rq, e, "Invalid businessKey")
        body == rq.body
        businessId == getBusinessIdFromKey(e, body.businessKey.s)
    IN IF pre.k # "continue" THEN pre
       ELSE IF Not(body.productId) \/ TypeOf(body.productId) # "string"
       THEN Respond("validate", 400, [error |-> "productId is required"])
       ELSE IF Trim(body.productId.s) = ""
       THEN Respond("validate", 400, [error |-> "productId is required"])
       ELSE IF /\ TypeOf(body.name) # "string"
               /\ TypeOf(body.description) # "string"
               /\ TypeOf(body.unitPrice) # "number"
               /\ TypeOf(body.isSold) # "boolean"
               /\ TypeOf(body.isBought) # "boolean"
       THEN Respond("validate", 400,
                    [error |-> "At least one updatable field must be provided"])
       ELSE IF /\ TypeOf(body.unitPrice) = "number"
               /\ (~IsFinite(body.unitPrice) \/ LtZero(body.unitPrice))
       THEN Respond("validate", 400, [error |-> "unitPrice must be a non-negative number"])
       ELSE IF ~businessId.ok THEN Respond("resolve", 400, [error |-> "Invalid businessKey"])
       ELSE Call("mutation", "PRODUCT_UPDATE_MUTATION",
                 [input |-> [businessId |-> businessId.v,
                             id |-> Trim(body.productId.s),
                             name |-> OfType(body.name, "string"),
                             description |-> OfType(body.description, "string"),
                             unitPrice |-> OfType(body.unitPrice, "number"),
                             isSold |-> OfType(body.isSold, "boolean"),
                             isBought |-> OfType(body.isBought, "boolean")]],
                 [NoCtx EXCEPT !.businessId = businessId.v])

POST_productsUpdate_resume(rq, c, op, out) == ProductMutated(rq, c, out, "productUpdate")

POST_productsCreate(rq, e) ==
    LET pre == ListPrologue(rq, e, "Invalid businessKey")
        body == rq.body
        businessId == getBusinessIdFromKey(e, body.businessKey.s)
    IN IF pre.k # "continue" THEN pre
       ELSE IF Not(body.name) \/ TypeOf(body.name) # "string"
       THEN Respond("validate", 400, [error |-> "Product name is required"])
       ELSE IF Trim(body.name.s) = ""
       THEN Respond("validate", 400, [error |-> "Product name is required"])
       ELSE IF /\ TypeOf(body.unitPrice) # "undefined"
               /\ \/ TypeOf(body.unitPrice) # "number"
                  \/ ~IsFinite(body.unitPrice)
                  \/ LtZero(body.unitPrice)
       THEN Respond("validate", 400, [error |-> "unitPrice must be a non-negative number"])
       ELSE IF ~businessId.ok THEN Respond("resolve", 400, [error |-> "Invalid businessKey"])
       ELSE Call("mutation", "PRODUCT_CREATE_MUTATION",
                 [input |-> [businessId |-> businessId.v,
                             name |-> Trim(body.name.s),
                             description |-> Coalesce(body.description, Null),
                             isSold |-> Coalesce(body.isSold, Bool(TRUE)),
                             isBought |-> Coalesce(body.isBought, Bool(FALSE)),
                             unitPrice |-> IF IsFinite(body.unitPrice) THEN body.unitPrice
                                           ELSE Null]],
                 [NoCtx EXCEPT !.businessId = businessId.v])

POST_productsCreate_resume(rq, c, op, out) == ProductMutated(rq, c, out, "productCreate")

(***************************************************************************)
(* Spec: a request runs through a handler; Wave answers its calls.         *)
(***************************************************************************)
Secrets == {NoHeader, "", "s3cret", "wrong"}

\* the request bodies of the model, by endpoint: not JSON, null, without a
\* key, with an unknown key, valid for each key, and invalid in each field
\* (JSON.parse gives Infinity for a number such as 1e999, and never NaN)
PaymentBody(key, invoiceId, invoiceNumber, amount, notes) ==
    [t |-> "object", businessKey |-> key, invoiceId |-> invoiceId,
     invoiceNumber |-> invoiceNumber, amount |-> amount, paymentDate |-> Undef,
     paymentMethod |-> Undef, notes |-> notes]

Item(unitPrice, quantity) ==
    [t |-> "object", unitPrice |-> unitPrice, quantity |-> quantity, description |-> Undef]
InvoiceBody(key, customerId, items, invoiceDate) ==
    [t |-> "object", businessKey |-> key, customerId |-> customerId, items |-> items,
     invoiceDate |-> invoiceDate, dueDate |-> Undef, currency |-> Undef, memo |-> Undef]

TransactionBody(key, amount, direction, anchorAccountId) ==
    [t |-> "object", businessKey |-> key, amount |-> amount, direction |-> direction,
     balanceDirection |-> Undef, description |-> Undef, date |-> Undef,
     externalId |-> Undef, anchorAccountId |-> anchorAccountId, lineItemAccountId |-> Undef]

EnsureBody(key, name, email) ==
    [t |-> "object", businessKey |-> key, name |-> name, email |-> email, phone |-> Undef]

ListBody(key, page, pageSize) ==
    [t |-> "object", businessKey |-> key, status |-> Undef, page |-> page,
     pageSize |-> pageSize, limit |-> pageSize]

SummaryBody(key, year, month) ==
    [t |-> "object", businessKey |-> key, year |-> year, month |-> month]

ProductBody(key, productId, name, unitPrice) ==
    [t |-> "object", businessKey |-> key, productId |-> productId, name |-> name,
     description |-> Undef, unitPrice |-> unitPrice, isSold |-> Undef, isBought |-> Undef]

\* what Wave answers: the failures of any call
WaveFailures ==
    {NetworkError,
     HttpResponse(502, "Bad Gateway", TextBody("<html>Bad Gateway</html>")),
     HttpResponse(200, "OK", TextBody("")),
     HttpResponse(200, "OK", JsonBody(Doc(Arr(<<GqlError(Str("m1"))>>), Undef))),
     HttpResponse(200, "OK", JsonBody(Doc(Undef, Undef))),
     HttpResponse(200, "OK", JsonBody(Doc(Undef, Null)))}

\* an amount of money as Wave gives it (amount or value, by the query)
Money(amount) ==
    [t |-> "object", amount |-> Num(amount), value |-> Num(amount),
     currency |-> [t |-> "object", code |-> Str("USD")]]
\* an invoice node with every field Wave can give
InvoiceNode(number) ==
    [t |-> "object", id |-> "inv-1", invoiceNumber |-> number, status |-> Str("SENT"),
     createdAt |-> Str("2024-01-02T10:00:00Z"), invoiceDate |-> Str("2024-01-02"),
     dueDate |-> Str("2024-01-09"), total |-> Money(100), amountDue |-> Money(40),
     currency |-> [t |-> "object", code |-> Str("USD")],
     customer |-> [t |-> "object", id |-> Str("cus-1"), name |-> Str("Ana Maria"),
                   email |-> Str("ana@x.com")],
     publicUrl |-> Str("https://wave/inv-1"), viewUrl |-> Str("https://wave/inv-1"),
     pdfUrl |-> Str("https://wave/inv-1.pdf")]
InputError(message) == [t |-> "object", code |-> "INVALID", message |-> message]
MutationPayload(didSucceed, inputErrors, entity) ==
    [t |-> "object", didSucceed |-> didSucceed, inputErrors |-> inputErrors,
     entity |-> entity]
\* what a mutation created: a payment (with its invoice) or an invoice
Entity(invoice) ==
    [t |-> "object", id |-> "new-1", invoice |-> invoice, paymentMethod |-> Str("CASH"),
     notes |-> Null] @@ InvoiceNode(Str("1001"))

\* Wave's answers to a list query over the collection named field
Collection(field, value) == [t |-> "object", business |-> (field :> value) @@ [t |-> "object"]]
Edges(nodes) ==
    [t |-> "object", edges |-> nodes,
     pageInfo |-> [t |-> "object", currentPage |-> Num(1), totalPages |-> Num(1),
                   totalCount |-> Num(Len(nodes))]]
CollectionData(field, node) ==
    {[t |-> "object", business |-> Null],
     Collection(field, Null),
     Collection(field, Edges(<<>>)),
     Collection(field, Edges(<<[t |-> "object", node |-> node]>>))}

CustomerNode ==
    [t |-> "object", id |-> "cus-1", name |-> Str("Ana Maria"), email |-> Str("ana@x.com"),
     phone |-> Null]

\* the data of Wave's answers to a query or mutation; "result" is the
\* mutation's field of data (invoicePaymentCreate, moneyTransactionCreate,
\* ...) and "entity" the object it created or changed
WaveData(op) ==
    CASE op = "FIND_INVOICE_BY_ID_QUERY" ->
            {[t |-> "object", business |-> Null],
             Collection("invoice", Null),
             Collection("invoice", InvoiceNode(Str("1001"))),
             Collection("invoice", InvoiceNode(Null))}
      [] op \in {"FIND_INVOICE_BY_NUMBER_QUERY", "LIST_INVOICES_QUERY", "MONTHLY_SUMMARY_QUERY"} ->
            CollectionData("invoices", InvoiceNode(Str("1001")))
      [] op = "LIST_CUSTOMERS_QUERY" -> CollectionData("customers", CustomerNode)
      [] op = "LIST_PRODUCTS_QUERY" ->
            CollectionData("products", [t |-> "object", id |-> "prod-1", name |-> Str("Cake")])
      [] OTHER ->
            {[t |-> "object", result |-> Null],
             [t |-> "object", result |->
                MutationPayload(FALSE, Arr(<<InputError("e1"), InputError("e2")>>), Null)],
             [t |-> "object", result |-> MutationPayload(TRUE, Arr(<<>>), Null)],
             [t |-> "object", result |->
                MutationPayload(TRUE, Arr(<<>>), Entity(InvoiceNode(Str("1001"))))],
             [t |-> "object", result |-> MutationPayload(TRUE, Null, Entity(Null))],
             [t |-> "object", result |->
                MutationPayload(TRUE, Arr(<<InputError("e1")>>),
                                Entity(InvoiceNode(Str("1001"))))]}

WaveAnswers_to(op) ==
    WaveFailures \cup {HttpResponse(200, "OK", JsonBody(Doc(Undef, d))) : d \in WaveData(op)}

Queries ==
    {"FIND_INVOICE_BY_ID_QUERY", "FIND_INVOICE_BY_NUMBER_QUERY", "LIST_INVOICES_QUERY",
     "MONTHLY_SUMMARY_QUERY", "LIST_CUSTOMERS_QUERY", "LIST_PRODUCTS_QUERY"}
Mutations ==
    {"ADD_PAYMENT_MUTATION", "MONEY_TRANSACTION_CREATE_MUTATION", "CREATE_INVOICE_MUTATION",
     "INVOICE_APPROVE_MUTATION", "CUSTOMER_CREATE_MUTATION", "PRODUCT_UPDATE_MUTATION",
     "PRODUCT_CREATE_MUTATION"}

\* Wave applied the mutation it answers with didSucceed
Applied(op, out) ==
    /\ op \in Mutations
    /\ out.ok
    /\ out.v # Null
    /\ out.v.result # Null
    /\ out.v.result.didSucceed

AddPaymentHandlers == {"addPayment", "addPayment_direct", "addPayment_sales", "addPayment_income"}
Handlers ==
    AddPaymentHandlers \cup
    {"invoicesCreate", "invoicesCreate_v2", "invoicesApprove", "transactionsCreate",
     "customersEnsure", "invoicesList", "invoicesList_v2", "summaryMonth", "productsList",
     "customersList", "productsUpdate", "productsCreate"}

Bodies(h) ==
    {NotJson, Null} \cup
    CASE h \in AddPaymentHandlers ->
           ({PaymentBody(Undef, Str("inv-1"), Undef, Num(50), Undef),
             PaymentBody(Str("other"), Str("inv-1"), Undef, Num(50), Undef),
             PaymentBody(Str("manna"), Undef, Undef, Num(50), Undef),
             PaymentBody(Str("manna"), Undef, Str("1001"), Num(50), Str("deposit")),
             PaymentBody(Str("manna"), Str("inv-1"), Undef, Num(0), Undef),
             PaymentBody(Str("manna"), Str("inv-1"), Undef, Str("50"), Undef),
             PaymentBody(Str("manna"), Str("inv-1"), Undef, Infinity, Undef)}
                \cup {PaymentBody(Str(k), Str("inv-1"), Undef, Num(50), Undef) : k \in BusinessKeys})
      [] h \in {"invoicesCreate", "invoicesCreate_v2"} ->
           ({InvoiceBody(Undef, Str("cus-1"), Arr(<<Item(Num(10), Undef)>>), Undef),
             InvoiceBody(Str("other"), Str("cus-1"), Arr(<<Item(Num(10), Undef)>>), Undef),
             InvoiceBody(Str("manna"), Str(" "), Arr(<<Item(Num(10), Undef)>>), Undef),
             InvoiceBody(Str("manna"), Str("cus-1"), Undef, Undef),
             InvoiceBody(Str("manna"), Str("cus-1"), Arr(<<>>), Undef),
             InvoiceBody(Str("manna"), Str("cus-1"), Arr(<<Item(Num(10), Num(2)), Item(Num(0), Num(0))>>),
                         Undef),
             InvoiceBody(Str("manna"), Str("cus-1"), Arr(<<Item(Infinity, Undef)>>), Undef),
             InvoiceBody(Str("manna"), Str("cus-1"), Arr(<<Item(Num(10), Infinity)>>), Undef),
             InvoiceBody(Str("manna"), Str("cus-1"), Arr(<<Item(Num(10), Num(2))>>), Str("2024-12-28")),
             InvoiceBody(Str("manna"), Str("cus-1"), Arr(<<Item(Num(10), Num(2))>>), Str("soon"))}
                \cup {InvoiceBody(Str(k), Str("cus-1"), Arr(<<Item(Num(10), Undef)>>), Undef)
                        : k \in BusinessKeys})
      [] h = "invoicesApprove" ->
           ({[t |-> "object", businessKey |-> Undef, invoiceId |-> Str("inv-1")],
             [t |-> "object", businessKey |-> Str("other"), invoiceId |-> Str("inv-1")],
             [t |-> "object", businessKey |-> Str("manna"), invoiceId |-> Undef],
             [t |-> "object", businessKey |-> Str("manna"), invoiceId |-> Num(7)]}
                \cup {[t |-> "object", businessKey |-> Str(k), invoiceId |-> Str("inv-1")]
                        : k \in BusinessKeys})
      [] h = "transactionsCreate" ->
           ({TransactionBody(Undef, Num(50), Undef, Undef),
             TransactionBody(Str("other"), Num(50), Undef, Undef),
             TransactionBody(Str("manna"), Num(0), Undef, Undef),
             TransactionBody(Str("manna"), Infinity, Undef, Undef),
             TransactionBody(Str("manna"), Str("50"), Undef, Undef),
             TransactionBody(Str("manna"), Num(50), Str("SIDEWAYS"), Undef),
             TransactionBody(Str("manna"), Num(50), Str("WITHDRAWAL"), Str("acct-9"))}
                \cup {TransactionBody(Str(k), Num(50), Undef, Undef) : k \in BusinessKeys})
      [] h = "customersEnsure" ->
           ({EnsureBody(Undef, Str("Ana"), Undef),
             EnsureBody(Str("other"), Str("Ana"), Undef),
             EnsureBody(Str("manna"), Undef, Str(" ")),
             EnsureBody(Str("manna"), Str("Bob"), Undef),
             EnsureBody(Str("manna"), Undef, Str("ANA@X.COM"))}
                \cup {EnsureBody(Str(k), Str("Ana"), Undef) : k \in BusinessKeys})
      [] h = "summaryMonth" ->
           ({SummaryBody(Undef, Num(2024), Num(2)),
             SummaryBody(Str("other"), Num(2024), Num(2)),
             SummaryBody(Str("manna"), Num(2024), Undef),
             SummaryBody(Str("manna"), Num(2024), Num(13)),
             SummaryBody(Str("manna"), Infinity, Num(2))}
                \cup {SummaryBody(Str(k), Num(2024), Num(2)) : k \in BusinessKeys})
      [] h \in {"productsUpdate", "productsCreate"} ->
           ({ProductBody(Undef, Str("prod-1"), Str("Cake"), Num(10)),
             ProductBody(Str("other"), Str("prod-1"), Str("Cake"), Num(10)),
             ProductBody(Str("manna"), Undef, Undef, Num(10)),
             ProductBody(Str("manna"), Str("prod-1"), Undef, Undef),
             ProductBody(Str("manna"), Str("prod-1"), Str("Cake"), Num(-1)),
             ProductBody(Str("manna"), Str("prod-1"), Str("Cake"), Undef)}
                \cup {ProductBody(Str(k), Str("prod-1"), Str("Cake"), Num(10)) : k \in BusinessKeys})
      [] OTHER ->
           ({ListBody(Undef, Undef, Undef),
             ListBody(Str("other"), Undef, Undef),
             ListBody(Str("manna"), Num(0), Undef),
             ListBody(Str("manna"), Num(2), Num(500))}
                \cup {ListBody(Str(k), Undef, Undef) : k \in BusinessKeys})

Requests(h) ==
    {[method |-> "GET", secret |-> secret, body |-> NotJson] : secret \in Secrets}
        \cup {[method |-> "POST", secret |-> secret, body |-> body]
                : secret \in Secrets, body \in Bodies(h)}

\* the exported POST of the route h
POST(h, rq, e) ==
    CASE h = "addPayment" -> POST_addPayment(rq, e)
      [] h = "addPayment_direct" -> POST_addPayment_direct(rq, e)
      [] h = "addPayment_sales" -> POST_addPayment_sales(rq, e)
      [] h = "addPayment_income" -> POST_addPayment_income(rq, e)
      [] h = "invoicesCreate" -> POST_invoicesCreate(rq, e)
      [] h = "invoicesCreate_v2" -> POST_invoicesCreate_v2(rq, e)
      [] h = "invoicesApprove" -> POST_invoicesApprove(rq, e)
      [] h = "transactionsCreate" -> POST_transactionsCreate(rq, e)
      [] h = "customersEnsure" -> POST_customersEnsure(rq, e)
      [] h = "invoicesList" -> POST_invoicesList(rq, e)
      [] h = "invoicesList_v2" -> POST_invoicesList_v2(rq, e)
      [] h = "summaryMonth" -> POST_summaryMonth(rq, e)
      [] h = "productsList" -> POST_productsList(rq, e)
      [] h = "customersList" -> POST_customersList(rq, e)
      [] h = "productsUpdate" -> POST_productsUpdate(rq, e)
      [] h = "productsCreate" -> POST_productsCreate(rq, e)

\* the same, from the completion of the call it awaited
POST_resume(h, rq, c, op, out) ==
    CASE h = "addPayment" -> POST_addPayment_resume(rq, c, op, out)
      [] h = "addPayment_direct" -> POST_addPayment_direct_resume(rq, c, op, out)
      [] h = "addPayment_sales" -> POST_addPayment_sales_resume(rq, c, op, out)
      [] h = "addPayment_income" -> POST_addPayment_income_resume(rq, c, op, out)
      [] h = "invoicesCreate" -> POST_invoicesCreate_resume(rq, c, op, out)
      [] h = "invoicesCreate_v2" -> POST_invoicesCreate_v2_resume(rq, c, op, out)
      [] h = "invoicesApprove" -> POST_invoicesApprove_resume(rq, c, op, out)
      [] h = "transactionsCreate" -> POST_transactionsCreate_resume(rq, c, op, out)
      [] h = "customersEnsure" -> POST_customersEnsure_resume(rq, c, op, out)
      [] h = "invoicesList" -> POST_invoicesList_resume(rq, c, op, out)
      [] h = "invoicesList_v2" -> POST_invoicesList_v2_resume(rq, c, op, out)
      [] h = "summaryMonth" -> POST_summaryMonth_resume(rq, c, op, out)
      [] h = "productsList" -> POST_productsList_resume(rq, c, op, out)
      [] h = "customersList" -> POST_customersList_resume(rq, c, op, out)
      [] h = "productsUpdate" -> POST_productsUpdate_resume(rq, c, op, out)
      [] h = "productsCreate" -> POST_productsCreate_resume(rq, c, op, out)

Init ==
    /\ env \in Environments(MaxMissing)
    /\ handler = "none" /\ req = NoRequest /\ pc = "idle" /\ ctx = NoCtx
    /\ http = <<>> /\ results = <<>> /\ resp = <<>> /\ ledger = <<>>
    /\ trace = NoTrace
    /\ fx = IdleFetch /\ peer = NoPeer /\ rs = NoResolve

\* the handler h ran to the step given, res being how its calls ended so
\* far: a response or an escaping exception ends the request; a call of
\* waveGraphQLFetch either throws at once for the missing token, into the
\* handler's catch, or sends its request and suspends the handler
Advance(h, rq, step, res) ==
    LET token == waveGraphQLFetch_token(env)
        refused == step.k = "call" /\ ~token.ok
        final == IF refused THEN POST_resume(h, rq, step.ctx, step.op, token) ELSE step
    IN /\ results' = IF refused THEN Append(res, token) ELSE res
       /\ trace' = [at |-> final.at, crashed |-> final.k = "crash"]
       /\ IF final.k = "call"
          THEN /\ pc' = "await"
               /\ ctx' = final.ctx
               /\ http' = http \o waveGraphQLFetch_send(token.v, final.op, final.variables)
               /\ resp' = resp
          ELSE /\ pc' = "done"
               /\ ctx' = ctx
               /\ http' = http
               /\ resp' = IF final.k = "respond"
                          THEN Append(resp, [status |-> final.status, body |-> final.body])
                          ELSE resp

\* a request arrives at the route h and the handler runs to its first await
Receive(h, rq) ==
    /\ pc = "idle"
    /\ handler' = h
    /\ req' = rq
    /\ Advance(h, rq, POST(h, rq, env), results)
    /\ UNCHANGED <<env, ledger, fx, rs, peer>>

\* Wave answers the call in flight with r and the handler runs on
WaveAnswers(r) ==
    /\ pc = "await"
    /\ LET op == http[Len(http)].body.query
           out == waveGraphQLFetch_settle(r)
       IN /\ ledger' = IF Applied(op, out)
                       THEN Append(ledger, [op |-> op, variables |-> http[Len(http)].body.variables])
                       ELSE ledger
          /\ Advance(handler, req, POST_resume(handler, req, ctx, op, out),
                     Append(results, out))
    /\ UNCHANGED <<env, handler, req, fx, rs, peer>>

Next ==
    \/ \E h \in Handlers : \E rq \in Requests(h) : Receive(h, rq)
    \/ /\ pc = "await"
       /\ \E r \in WaveAnswers_to(http[Len(http)].body.query) : WaveAnswers(r)

Spec == Init /\ [][Next]_vars

(***************************************************************************)
(* SpecValidate: one authenticated POST under a complete environment, its  *)
(* body drawn from every combination of present, absent and invalid        *)
(* fields; the handler runs to its response or to its first call.          *)
(***************************************************************************)
\* businessKey: absent, unknown, known
KeyInputs == {Undef, Str("other"), Str("manna")}
\* amounts, prices and quantities as JSON.parse can give them
NumberInputs == {Num(50), Num(0), Num(-5), Infinity, NegInfinity}
ItemInputs ==
    {Item(unitPrice, quantity) : unitPrice \in {Num(10), Num(0), Infinity, Str("10")},
                                 quantity \in {Undef, Num(2), Num(0), Infinity}}

WideBodies(h) ==
    {NotJson, Null} \cup
    CASE h \in AddPaymentHandlers ->
            {PaymentBody(key, id, number, amount, Undef) :
                key \in KeyInputs, id \in {Undef, Str("inv-1")},
                number \in {Undef, Str("1001")},
                amount \in NumberInputs \cup {Undef, Str("50")}}
      [] h \in {"invoicesCreate", "invoicesCreate_v2"} ->
            {[InvoiceBody(key, customerId, items, invoiceDate)
                    EXCEPT !.dueDate = given[1], !.currency = given[2]] :
                key \in KeyInputs, customerId \in {Str(" "), Str("cus-1")},
                items \in {Undef} \cup {Arr(a) : a \in SeqsUpTo(ItemInputs, MaxItems)},
                invoiceDate \in {Undef, Str("2024-01-28"), Str("2024-02-25"),
                                Str("2024-12-28"), Str("soon")},
                given \in {<<Undef, Undef>>, <<Str("2024-03-01"), Str("CAD")>>}}
      [] h = "invoicesApprove" ->
            {[t |-> "object", businessKey |-> key, invoiceId |-> id] :
                key \in KeyInputs, id \in {Undef, Num(7), Str("inv-1")}}
      [] h = "transactionsCreate" ->
            {TransactionBody(key, amount, direction, Undef) :
                key \in KeyInputs, amount \in NumberInputs \cup {Undef, Str("50")},
                direction \in {Undef, Str("SIDEWAYS"), Str("WITHDRAWAL")}}
      [] h = "customersEnsure" ->
            {EnsureBody(key, name, email) :
                key \in KeyInputs, name \in {Undef, Str("Ana")},
                email \in {Undef, Str(" "), Str("ANA@X.COM")}}
      [] h = "summaryMonth" ->
            {SummaryBody(key, year, month) :
                key \in KeyInputs, year \in {Undef, Num(2024), Infinity},
                month \in {Undef, Num(2), Num(13)}}
      [] h \in {"productsUpdate", "productsCreate"} ->
            {ProductBody(key, id, name, unitPrice) :
                key \in KeyInputs, id \in {Undef, Str("prod-1")},
                name \in {Undef, Str("Cake")},
                unitPrice \in {Undef, Num(10), Num(-1), Infinity}}
      [] OTHER ->
            {ListBody(key, page, pageSize) :
                key \in KeyInputs, page \in {Undef, Num(0), Num(2)},
                pageSize \in {Undef, Num(0), Num(500)}}

InitValidate ==
    /\ env \in Environments(0)
    /\ handler = "none" /\ req = NoRequest /\ pc = "idle" /\ ctx = NoCtx
    /\ http = <<>> /\ results = <<>> /\ resp = <<>> /\ ledger = <<>>
    /\ trace = NoTrace
    /\ fx = IdleFetch /\ peer = NoPeer /\ rs = NoResolve

\* the route h receives an authenticated POST with this body
Validate(h, body) ==
    Receive(h, [method |-> "POST", secret |-> env["INTERNAL_API_SECRET"], body |-> body])

NextValidate ==
    /\ pc = "idle"
    /\ \E h \in Handlers : \E body \in WideBodies(h) : Validate(h, body)

SpecValidate == InitValidate /\ [][NextValidate]_vars

(***************************************************************************)
(* SpecHealth: GET /api/health under every environment of the model, with  *)
(* every x-internal-secret header.                                         *)
(***************************************************************************)
SERVICE_METADATA == [ok |-> TRUE, service |-> "wave-billing-gpt-backend", version |-> "0.1.0"]

\* a variant that looks at the header before the configuration
GET_health_headerFirst(rq, e) ==
    IF rq.secret = NoHeader \/ rq.secret = "" \/ rq.secret # e["INTERNAL_API_SECRET"]
    THEN unauthorized
    ELSE IF NotSet(e["INTERNAL_API_SECRET"])
    THEN Respond("config", 500, [error |-> "Internal server error"])
    ELSE Respond("respond", 200, SERVICE_METADATA)

\* the exported GET of health/route.ts
GET_health(rq, e) ==
    IF NotSet(e["INTERNAL_API_SECRET"])
    THEN Respond("config", 500, [error |-> "Internal server error"])
    ELSE IF rq.secret = NoHeader \/ rq.secret = "" \/ rq.secret # e["INTERNAL_API_SECRET"]
    THEN unauthorized
    ELSE Respond("respond", 200, SERVICE_METADATA)

InitHealth ==
    /\ env \in Environments(MaxMissing)
    /\ handler = "none" /\ req = NoRequest /\ pc = "idle" /\ ctx = NoCtx
    /\ http = <<>> /\ results = <<>> /\ resp = <<>> /\ ledger = <<>>
    /\ trace = NoTrace
    /\ fx = IdleFetch /\ peer = NoPeer /\ rs = NoResolve

\* a GET arrives at /api/health with the header secret
Health(secret) ==
    /\ pc = "idle"
    /\ handler' = "health"
    /\ req' = [method |-> "GET", secret |-> secret, body |-> NotJson]
    /\ Advance("health", req', GET_health(req', env), results)
    /\ UNCHANGED <<env, ledger, fx, rs, peer>>

NextHealth == \E secret \in Secrets : Health(secret)

SpecHealth == InitHealth /\ [][NextHealth]_vars

\* C24: health answers 500 when INTERNAL_API_SECRET is unset or empty,
\* whatever the header; otherwise 401 when the header is missing, empty or
\* different; otherwise 200 with {ok: true, service, version}; and it never
\* sends a call.
C24_HealthOutcomes ==
    handler = "health" =>
        /\ http = <<>> /\ results = <<>> /\ ledger = <<>>
        /\ pc = "done"
        /\ resp =
             <<IF env["INTERNAL_API_SECRET"] \in {Unset, ""}
               THEN [status |-> 500, body |-> [error |-> "Internal server error"]]
               ELSE IF req.secret \in {NoHeader, ""} \/ req.secret # env["INTERNAL_API_SECRET"]
               THEN [status |-> 401, body |-> [error |-> "Unauthorized"]]
               ELSE [status |-> 200,
                     body |-> [ok |-> TRUE, service |-> "wave-billing-gpt-backend",
                               version |-> "0.1.0"]]>>

\* an empty header against an empty INTERNAL_API_SECRET: 500, not 401
C24_Witness ==
    /\ handler = "health"
    /\ env["INTERNAL_API_SECRET"] = ""
    /\ req.secret = ""
    /\ resp # <<>>
    /\ resp[1].status = 500

(***************************************************************************)
(* SpecRespond: one valid, authenticated POST under a complete             *)
(* environment, answered by Wave with data whose optional fields are       *)
(* present or null in every combination; the handler runs to its response. *)
(***************************************************************************)
\* invoice nodes with each optional field given or null
WideInvoiceNodes ==
    {[InvoiceNode(number) EXCEPT !.dueDate = dueDate, !.invoiceDate = dueDate,
                                 !.total = total, !.amountDue = amountDue,
                                 !.currency = IF total = Null THEN Null ELSE @,
                                 !.customer = customer,
                                 !.publicUrl = url, !.viewUrl = url, !.pdfUrl = url] :
        number \in {Null, Str("1001")},
        dueDate \in {Null, Str("2024-01-09")},
        total \in {Null, Money(100), [Money(100) EXCEPT !.currency = Null]},
        amountDue \in {Null, Money(40)},
        customer \in {Null, InvoiceNode(Null).customer,
                      [InvoiceNode(Null).customer EXCEPT !.name = Null, !.email = Null]},
        url \in {Null, Str("https://wave/inv-1")}}

\* the nodes of a page of invoices: everything given, or everything null
PageNodes ==
    {n \in WideInvoiceNodes :
        \/ Null \notin {n.invoiceNumber, n.dueDate, n.total, n.amountDue, n.customer, n.viewUrl}
        \/ {n.invoiceNumber, n.dueDate, n.total, n.amountDue, n.customer, n.viewUrl} = {Null}}

\* the invoices of a month: every status the summary counts and one it does
\* not, with whole amounts, given or null
SummaryNodes ==
    {[InvoiceNode(Str("1001")) EXCEPT !.status = Str(status), !.total = total,
                                      !.amountDue = amountDue] :
        status \in {"DRAFT", "APPROVED", "SENT", "PAID", "OVERDUE", "VIEWED"},
        total \in {Null, Money(100), [Money(250) EXCEPT !.currency = Null]},
        amountDue \in {Null, Money(40), Money(100)}}

\* the customers of a page: spelled as asked or otherwise, with and without
\* email and phone
WideCustomerNodes ==
    {CustomerNode,
     [CustomerNode EXCEPT !.id = "cus-2", !.name = Str("Bob"), !.email = Null,
                          !.phone = [t |-> "object", number |-> Str("555-1234")]],
     [CustomerNode EXCEPT !.id = "cus-3", !.name = Str("Cy"), !.email = Str("ANA@X.COM")],
     [CustomerNode EXCEPT !.id = "cus-4", !.name = Null, !.email = Null]}

\* ensure-customer bodies with a name or an email, and a phone or none
WideEnsureBodies ==
    {[EnsureBody(Str("manna"), name, email) EXCEPT !.phone = phone] :
        name \in {Undef, Str("Ana"), Str("Bob"), Str("Dee")},
        email \in {Undef, Str("ana@x.com"), Str("dee@x.com")},
        phone \in {Undef, Str("1234")}}
    \ {[EnsureBody(Str("manna"), Undef, Undef) EXCEPT !.phone = phone] :
          phone \in {Undef, Str("1234")}}

\* the valid body the route h is asked with
RespondBodies(h) ==
    CASE h \in AddPaymentHandlers ->
            {PaymentBody(Str("manna"), Str("inv-1"), Undef, Num(50), Undef),
             PaymentBody(Str("manna"), Str("inv-1"), Str("1001"), Num(50), Undef),
             PaymentBody(Str("manna"), Str(""), Str("1001"), Num(50), Undef),
             PaymentBody(Str("manna"), Undef, Str("1001"), Num(50), Undef)}
      [] h \in {"invoicesCreate", "invoicesCreate_v2"} ->
            {InvoiceBody(Str("manna"), Str("cus-1"), Arr(<<Item(Num(10), Undef)>>), Undef)}
      [] h = "summaryMonth" -> {SummaryBody(Str("manna"), Num(2024), Num(2))}
      [] h = "customersEnsure" -> WideEnsureBodies
      [] OTHER -> {ListBody(Str("manna"), Undef, Undef)}

RespondHandlers ==
    AddPaymentHandlers \cup
    {"invoicesCreate", "invoicesCreate_v2", "invoicesList", "summaryMonth", "customersEnsure"}

\* the data Wave answers the call in flight with
WideData(h, op, step) ==
    CASE op = "FIND_INVOICE_BY_ID_QUERY" /\ step = "refetch" ->
            {Collection("invoice", node) : node \in WideInvoiceNodes}
      [] op = "FIND_INVOICE_BY_ID_QUERY" ->
            {[t |-> "object", business |-> Null],
             Collection("invoice", Null),
             Collection("invoice", InvoiceNode(Str("1001")))}
      [] op = "FIND_INVOICE_BY_NUMBER_QUERY" ->
            CollectionData("invoices", InvoiceNode(Str("1001")))
      [] op = "ADD_PAYMENT_MUTATION" /\ h = "addPayment_direct" ->
            {[t |-> "object", result |-> MutationPayload(TRUE, Arr(<<>>), Entity(node))] :
                node \in WideInvoiceNodes}
      [] op = "CREATE_INVOICE_MUTATION" ->
            {[t |-> "object", result |->
                MutationPayload(TRUE, Arr(<<>>), [node EXCEPT !.id = "new-1"])] :
                node \in WideInvoiceNodes}
      [] op = "LIST_INVOICES_QUERY" ->
            {Collection("invoices", Null),
             Collection("invoices", [Edges(<<>>) EXCEPT !.pageInfo = Null])}
            \cup {Collection("invoices", Edges(nodes)) :
                    nodes \in SeqsUpTo({[t |-> "object", node |-> n] : n \in PageNodes},
                                       MaxNodes)}
      [] op = "MONTHLY_SUMMARY_QUERY" ->
            {Collection("invoices", Edges(nodes)) :
                nodes \in SeqsUpTo({[t |-> "object", node |-> n] : n \in SummaryNodes},
                                   MaxNodes)}
      [] op = "LIST_CUSTOMERS_QUERY" ->
            {Collection("customers", Null)}
            \cup {Collection("customers", Edges(nodes)) :
                    nodes \in SeqsUpTo({[t |-> "object", node |-> n] : n \in WideCustomerNodes},
                                       MaxNodes)}
      [] op = "CUSTOMER_CREATE_MUTATION" ->
            {[t |-> "object", result |-> payload] :
                payload \in {Null,
                             MutationPayload(TRUE, Arr(<<>>),
                                             [CustomerNode EXCEPT !.id = "cus-new-1"]),
                             MutationPayload(TRUE, Arr(<<>>), Null),
                             MutationPayload(TRUE, Arr(<<InputError("e1")>>),
                                             [CustomerNode EXCEPT !.id = "cus-new-1"]),
                             MutationPayload(FALSE, Arr(<<InputError("e1")>>), Null)}}
      [] op \in Mutations ->
            {[t |-> "object", result |->
                MutationPayload(TRUE, Arr(<<>>), Entity(InvoiceNode(Str("1001"))))]}
      [] OTHER -> {Collection("invoice", InvoiceNode(Str("1001")))}

InitRespond ==
    /\ env \in Environments(0)
    /\ handler = "none" /\ req = NoRequest /\ pc = "idle" /\ ctx = NoCtx
    /\ http = <<>> /\ results = <<>> /\ resp = <<>> /\ ledger = <<>>
    /\ trace = NoTrace
    /\ fx = IdleFetch /\ peer = NoPeer /\ rs = NoResolve

\* the route h receives a valid, authenticated POST
Ask(h, body) ==
    Receive(h, [method |-> "POST", secret |-> env["INTERNAL_API_SECRET"], body |-> body])

\* Wave answers the call in flight with the data d
AnswerData(d) == WaveAnswers(HttpResponse(200, "OK", JsonBody(Doc(Undef, d))))

NextRespond ==
    \/ /\ pc = "idle"
       /\ \E h \in RespondHandlers : \E body \in RespondBodies(h) : Ask(h, body)
    \/ /\ pc = "await"
       /\ \E d \in WideData(handler, http[Len(http)].body.query, ctx.step) : AnswerData(d)

SpecRespond == InitRespond /\ [][NextRespond]_vars

(***************************************************************************)
(* SpecPair: two requests in one process.  A handler runs from one await   *)
(* to the next without interruption; while it is suspended at a call, or   *)
(* before and after it, the other request may run.  Everything a handler   *)
(* holds is local to its invocation, so the request that is not running    *)
(* keeps its own handler, request, position, locals, calls, outcomes and   *)
(* responses in peer; process.env and Wave's ledger are the only things    *)
(* both see.                                                               *)
(***************************************************************************)
\* the request that runs, as a record like peer
Running ==
    [handler |-> handler, req |-> req, pc |-> pc, ctx |-> ctx, http |-> http,
     results |-> results, resp |-> resp, trace |-> trace]

\* a variant in which the handlers' locals are one module-level object
Switch_sharedLocals ==
    /\ peer' = Running
    /\ handler' = peer.handler /\ req' = peer.req /\ pc' = peer.pc
    /\ http' = peer.http /\ results' = peer.results /\ resp' = peer.resp
    /\ trace' = peer.trace
    /\ UNCHANGED <<env, ctx, ledger, fx, rs>>

\* the running request is suspended, or not started, or done, and the event
\* loop runs the other one
Switch ==
    /\ peer' = Running
    /\ handler' = peer.handler /\ req' = peer.req /\ pc' = peer.pc /\ ctx' = peer.ctx
    /\ http' = peer.http /\ results' = peer.results /\ resp' = peer.resp
    /\ trace' = peer.trace
    /\ UNCHANGED <<env, ledger, fx, rs>>

PairHandlers == {"addPayment_sales", "customersEnsure"}
PairBodies(h) ==
    IF h = "customersEnsure"
    THEN {EnsureBody(Str("manna"), Str("Ana"), Undef), EnsureBody(Str("bako"), Str("Bob"), Undef)}
    ELSE {PaymentBody(Str("manna"), Str("inv-1"), Undef, Num(50), Undef),
          PaymentBody(Str("bako"), Undef, Str("1001"), Num(70), Undef)}

\* what Wave answers in SpecPair: a failure, or any data of the call
PairAnswers(op) ==
    {NetworkError} \cup {HttpResponse(200, "OK", JsonBody(Doc(Undef, d))) : d \in WaveData(op)}

NextPair ==
    \/ /\ pc = "idle"
       /\ \E h \in PairHandlers : \E body \in PairBodies(h) : Ask(h, body)
    \/ /\ pc = "await"
       /\ \E r \in PairAnswers(http[Len(http)].body.query) : WaveAnswers(r)
    \/ Switch

SpecPair == InitRespond /\ [][NextPair]_vars

(***************************************************************************)
(* SpecEnsure: two ensure-customer requests in one process, and a Wave     *)
(* that answers from its own state: the customers it lists are the ones    *)
(* created so far, and a customerCreate adds one (or, when a customer of   *)
(* that name exists, may be refused: Wave's policy is not the program's).  *)
(***************************************************************************)
\* the customers Wave holds: one per customerCreate it applied, in order
RECURSIVE UpstreamCustomers(_, _)
UpstreamCustomers(applied, i) ==
    IF i > Len(applied) THEN <<>>
    ELSE <<[t |-> "object",
            node |-> [t |-> "object", id |-> "cus-new-" \o ToString(i),
                      name |-> Str(applied[i].variables.input.name),
                      email |-> Coalesce(applied[i].variables.input.email, Null),
                      phone |-> Coalesce(applied[i].variables.input.phone, Null)]]>>
         \o UpstreamCustomers(applied, i + 1)

\* the data Wave answers the call in flight with
ServedData(op, variables) ==
    IF op = "LIST_CUSTOMERS_QUERY"
    THEN {Collection("customers", Edges(UpstreamCustomers(ledger, 1)))}
    ELSE LET after == Append(ledger, [op |-> op, variables |-> variables])
             created == UpstreamCustomers(after, 1)[Len(after)].node
             taken == \E i \in 1..Len(ledger) :
                         ledger[i].variables.input.name = variables.input.name
         IN {[t |-> "object", result |-> MutationPayload(TRUE, Arr(<<>>), created)]}
            \cup (IF taken
                  THEN {[t |-> "object", result |->
                           MutationPayload(FALSE, Arr(<<InputError("Customer exists")>>), Null)]}
                  ELSE {})

EnsureBodies ==
    {EnsureBody(Str("manna"), name, email) :
        name \in {Str("Ana"), Str("Bob"), Str("Ana Maria")}, email \in {Undef, Str("ana@x.com")}}

\* Wave answers the call in flight from its state
WaveServes(d) == WaveAnswers(HttpResponse(200, "OK", JsonBody(Doc(Undef, d))))

NextEnsure ==
    \/ /\ pc = "idle"
       /\ \E body \in EnsureBodies : Ask("customersEnsure", body)
    \/ /\ pc = "await"
       /\ \E d \in ServedData(http[Len(http)].body.query, http[Len(http)].body.variables) :
             WaveServes(d)
    \/ Switch

SpecEnsure == InitRespond /\ [][NextEnsure]_vars

(***************************************************************************)
(* Properties of the handlers (Spec).                                      *)
(***************************************************************************)
\* the header is missing, empty, or not the configured secret
SecretIsBad ==
    \/ req.secret = NoHeader
    \/ req.secret = ""
    \/ req.secret # env["INTERNAL_API_SECRET"]

\* C1: a POST request whose x-internal-secret header is missing, empty or
\* different from INTERNAL_API_SECRET gets 401 {error: 'Unauthorized'} from
\* every handler whatever its body, and the handler stops at the secret
\* check: no body parsed, no configuration read, no outbound call.
C1_UnauthorizedStops ==
    (handler # "none" /\ req.method = "POST" /\ SecretIsBad) =>
        /\ pc = "done"
        /\ resp = <<[status |-> 401, body |-> [error |-> "Unauthorized"]]>>
        /\ trace = [at |-> "auth", crashed |-> FALSE]
        /\ ctx = NoCtx
        /\ http = <<>>
        /\ results = <<>>

\* an empty header against an empty INTERNAL_API_SECRET, with a valid body
C1_Witness ==
    /\ handler = "addPayment"
    /\ req = [method |-> "POST", secret |-> "",
              body |-> PaymentBody(Str("manna"), Str("inv-1"), Undef, Num(50), Undef)]
    /\ env["INTERNAL_API_SECRET"] = ""
    /\ Len(resp) = 1
    /\ resp[1].status = 401

\* the account entries the two resolvers read for a key
PaymentEntries(key) == <<"WAVE_ANCHOR_ACCOUNT_ID_" \o Upper(key), "WAVE_SALES_ACCOUNT_ID_" \o Upper(key)>>
IncomeEntries(key) == <<"WAVE_ANCHOR_ACCOUNT_ID_" \o Upper(key), "WAVE_INCOME_ACCOUNT_ID_" \o Upper(key)>>
CompleteOrNothing(out, e, entries) ==
    IF NotSet(e[entries[1]]) \/ NotSet(e[entries[2]])
    THEN ~out.ok
    ELSE out = Return([anchorAccountId |-> e[entries[1]], otherAccountId |-> e[entries[2]]])

\* C6: under every environment and for every business key,
\* getWavePaymentConfig (and getAccountIdsFromKey) gives both account ids,
\* non-empty, or fails; and an add-payment handler with a call sent holds
\* every identifier it resolves: the business id, and for the money
\* transaction variants the anchor and the sales or income account id.
C6_CompleteOrNothing ==
    /\ \A key \in BusinessKeys :
          /\ CompleteOrNothing(getWavePaymentConfig(env, key), env, PaymentEntries(key))
          /\ CompleteOrNothing(getAccountIdsFromKey(env, key), env, IncomeEntries(key))
    /\ (handler \in AddPaymentHandlers /\ http # <<>>) =>
          LET key == req.body.businessKey.s
              entries == IF handler = "addPayment_sales" THEN PaymentEntries(key)
                         ELSE IncomeEntries(key)
          IN /\ ~NotSet(ctx.businessId)
             /\ ctx.businessId = env["WAVE_BUSINESS_ID_" \o Upper(key)]
             /\ handler \in {"addPayment_sales", "addPayment_income"} =>
                   /\ ~NotSet(ctx.anchorAccountId)
                   /\ ~NotSet(ctx.otherAccountId)
                   /\ ctx.anchorAccountId = env[entries[1]]
                   /\ ctx.otherAccountId = env[entries[2]]

\* the sales account of the key is missing and the handler sent nothing
C6_Witness ==
    /\ handler = "addPayment_sales"
    /\ req.method = "POST"
    /\ ~SecretIsBad
    /\ req.body = PaymentBody(Str("manna"), Str("inv-1"), Undef, Num(50), Undef)
    /\ NotSet(env["WAVE_SALES_ACCOUNT_ID_MANNA"])
    /\ pc = "done"
    /\ http = <<>>

\* the environment entries the request needs, for a body that passed validation
Needed(h, body) ==
    LET K == Upper(body.businessKey.s)
    IN {"WAVE_BUSINESS_ID_" \o K}
         \cup (IF h = "addPayment_sales"
               THEN {"WAVE_ANCHOR_ACCOUNT_ID_" \o K, "WAVE_SALES_ACCOUNT_ID_" \o K} ELSE {})
         \cup (IF h = "addPayment_income"
               THEN {"WAVE_ANCHOR_ACCOUNT_ID_" \o K, "WAVE_INCOME_ACCOUNT_ID_" \o K} ELSE {})
         \cup (IF h \in {"invoicesCreate", "invoicesCreate_v2"}
               THEN {"WAVE_PRODUCT_ID_GENERIC_" \o K} ELSE {})
         \cup (IF h = "transactionsCreate" /\ Not(body.anchorAccountId)
               THEN {"WAVE_ANCHOR_ACCOUNT_ID_" \o K} ELSE {})
         \cup (IF h = "transactionsCreate" /\ Not(body.lineItemAccountId)
               THEN {"WAVE_LINE_ITEM_ACCOUNT_ID_" \o K} ELSE {})

\* C7: when a request with a valid businessKey passed validation and an
\* environment entry it needs is unset or empty, no outbound call is made
\* and the response is 500-class.
C7_MissingEntryIs500 ==
    (/\ trace.at \in {"resolve", "execute"}
     /\ \E name \in Needed(handler, req.body) : NotSet(env[name])) =>
        /\ http = <<>>
        /\ Len(resp) = 1
        /\ resp[1].status \in 500..599

\* C9: no outbound call is sent unless the request was authenticated,
\* passed validation and had its business resolved; a request that has
\* ended has exactly one response and an outbound call for each call that
\* ended after a request was sent.
C9_PipelineOrder ==
    /\ http # <<>> =>
          /\ req.method = "POST"
          /\ ~SecretIsBad
          /\ trace.at = "execute"
          /\ ~NotSet(ctx.businessId)
    /\ pc = "done" => Len(resp) = 1
    /\ pc # "done" => resp = <<>>

RefetchingHandlers == {"addPayment", "addPayment_sales", "addPayment_income"}
LookupQueries == {"FIND_INVOICE_BY_ID_QUERY", "FIND_INVOICE_BY_NUMBER_QUERY"}
PaymentMutations == {"ADD_PAYMENT_MUTATION", "MONEY_TRANSACTION_CREATE_MUTATION"}

\* C10: in the add-payment handlers that re-fetch, the calls sent are a
\* prefix of lookup, payment mutation, re-fetch, each sent only after the
\* one before returned without throwing and, for the re-fetch, after Wave
\* recorded the payment; when the re-fetch throws or returns no invoice the
\* response is 500, the payment is still recorded and no further call was
\* sent.
C10_LookupMutateRefetch ==
    handler \in RefetchingHandlers =>
        /\ Len(http) <= 3
        /\ Len(http) >= 1 => http[1].body.query \in LookupQueries
        /\ Len(http) >= 2 =>
              /\ http[2].body.query \in PaymentMutations
              /\ results[1].ok
        /\ Len(http) = 3 =>
              /\ http[3].body.query = "FIND_INVOICE_BY_ID_QUERY"
              /\ results[2].ok
              /\ Len(ledger) = 1
              /\ ledger[1].op \in PaymentMutations
        /\ (/\ Len(results) = 3
            /\ \/ ~results[3].ok
               \/ results[3].v = Null
               \/ Nullish(BusinessInvoice(results[3].v))) =>
              /\ pc = "done"
              /\ Len(resp) = 1
              /\ resp[1].status = 500
              /\ Len(ledger) = 1
              /\ Len(http) = 3

\* the re-fetch threw after the payment was recorded
C10_Witness ==
    /\ handler = "addPayment_sales"
    /\ Len(results) = 3
    /\ ~results[3].ok
    /\ Len(ledger) = 1
    /\ resp[1].status = 500

\* the payloads of the mutations Wave answered so far in this request
MutationPayloads ==
    {results[i].v.result : i \in {j \in 1..Len(results) :
        /\ j <= Len(http)
        /\ http[j].body.query \in Mutations
        /\ results[j].ok
        /\ results[j].v # Null
        /\ results[j].v.result # Null}}
HasInputErrors(payload) ==
    /\ payload.inputErrors \notin {Null, Undef}
    /\ payload.inputErrors.a # <<>>
UpstreamRejected(payload) == ~payload.didSucceed \/ HasInputErrors(payload)

\* C11: when the payload of the upstream mutation has didSucceed false or a
\* non-empty inputErrors list, the request ends with status 400 or 500,
\* never 200, also when didSucceed is true and an entity was returned.
C11_UpstreamFailureNot200 ==
    (pc = "done" /\ \E payload \in MutationPayloads : UpstreamRejected(payload)) =>
        /\ Len(resp) = 1
        /\ resp[1].status \in {400, 500}

\* the messages of an upstream inputErrors list, and those of the list an
\* error response carries: messages in details (add-payment) and in
\* inputErrors (create invoice), the upstream objects in inputErrors elsewhere
UpstreamMessages(payload) ==
    [i \in 1..Len(payload.inputErrors.a) |-> payload.inputErrors.a[i].message]
ResponseMessages(h, body) ==
    IF h \in AddPaymentHandlers THEN body.details
    ELSE IF h = "invoicesCreate" THEN body.inputErrors
    ELSE [i \in 1..Len(body.inputErrors) |-> body.inputErrors[i].message]

\* C12: when the upstream mutation reports didSucceed false with a
\* non-empty inputErrors list, the error response carries every message of
\* that list, in the same order.
C12_AllMessagesInOrder ==
    \A payload \in MutationPayloads :
        (pc = "done" /\ ~payload.didSucceed /\ HasInputErrors(payload)) =>
            /\ Len(resp) = 1
            /\ resp[1].status \in {400, 500}
            /\ ResponseMessages(handler, resp[1].body) = UpstreamMessages(payload)

\* create invoice answered with the two messages Wave sent
C12_Witness ==
    /\ handler = "invoicesCreate"
    /\ pc = "done"
    /\ \E payload \in MutationPayloads :
          ~payload.didSucceed /\ Len(payload.inputErrors.a) = 2
    /\ resp[1].body.inputErrors = <<"e1", "e2">>

\* C13: every authenticated POST request, whatever its JSON body and the
\* environment, ends in one JSON response with a status code: no exception
\* escapes the handler.
C13_NoUnhandledException ==
    (handler # "none" /\ req.method = "POST" /\ ~SecretIsBad /\ pc = "done") =>
        /\ ~trace.crashed
        /\ Len(resp) = 1
        /\ resp[1].status \in 200..599

\* the calls sent in this request that ended in an error thrown by
\* waveGraphQLFetch
FailedCalls == {i \in 1..Len(results) : i <= Len(http) /\ ~results[i].ok}

\* C14: when a call sent to Wave fails with a transport, GraphQL or protocol
\* error, the request ends with a 500 whose body has a details field equal
\* to the message of that error.
C14_CallFailureIs500WithDetails ==
    \A i \in FailedCalls :
        /\ pc = "done"
        /\ Len(resp) = 1
        /\ resp[1].status = 500
        /\ "details" \in DOMAIN resp[1].body
        /\ resp[1].body.details = results[i].msg

\* C22: a request whose method is not POST gets 405 'Method Not Allowed' with
\* the header Allow: POST from every handler, whatever its x-internal-secret
\* is, and the handler ends there: no 401, no later stage, no call.
C22_MethodBeforeSecret ==
    (handler \in Handlers /\ req.method # "POST") =>
        /\ resp = <<[status |-> 405, body |-> [error |-> "Method Not Allowed", Allow |-> "POST"]]>>
        /\ trace = [at |-> "method", crashed |-> FALSE]
        /\ pc = "done"
        /\ http = <<>>

\* a GET with a wrong secret at summary/month
C22_Witness ==
    /\ handler = "summaryMonth"
    /\ req.method = "GET"
    /\ req.secret = "wrong"
    /\ env["INTERNAL_API_SECRET"] = "s3cret"
    /\ resp # <<>>
    /\ resp[1].status = 405

(***************************************************************************)
(* Properties of validation and defaulting (SpecValidate).                 *)
(***************************************************************************)
KeyMessages == {"Invalid businessKey", "Invalid or missing businessKey"}
BodyIsObject == req.body \notin {NotJson, Null}
KeyIsBad == req.body.businessKey = Undef \/ req.body.businessKey.s \notin BusinessKeys

\* C15: a body that is not JSON gets 400 'Invalid JSON body'; a JSON object
\* whose businessKey is missing or unknown gets 400 with the business key
\* message whatever its other fields are; a request that ends in parsing or
\* validation has one 400 response with a single error message and has
\* sent no call.
C15_FirstFailureOnly ==
    handler # "none" =>
        /\ req.body = NotJson =>
              /\ resp = <<[status |-> 400, body |-> [error |-> "Invalid JSON body"]]>>
              /\ http = <<>>
        /\ (BodyIsObject /\ KeyIsBad) =>
              /\ Len(resp) = 1
              /\ resp[1].status = 400
              /\ DOMAIN resp[1].body = {"error"}
              /\ resp[1].body.error \in KeyMessages
              /\ http = <<>>
        /\ (BodyIsObject /\ trace.at \in {"parse", "validate"} /\ ~trace.crashed) =>
              /\ Len(resp) = 1
              /\ resp[1].status = 400
              /\ DOMAIN resp[1].body = {"error"}
              /\ resp[1].body.error \in KeyMessages <=> KeyIsBad
              /\ http = <<>>

\* an add-payment body failing all three checks of validateBody
C15_Witness ==
    /\ handler = "addPayment"
    /\ req.body = PaymentBody(Str("other"), Undef, Undef, Num(0), Undef)
    /\ resp = <<[status |-> 400, body |-> [error |-> "Invalid or missing businessKey"]]>>

\* a finite number strictly greater than 0
FinitePositive(v) == v.t = "number" /\ v.k = "finite" /\ v.n > 0
\* the request carries an amount, unitPrice or quantity that is not one
BadNumberInBody ==
    /\ BodyIsObject
    /\ \/ /\ handler \in AddPaymentHandlers \cup {"transactionsCreate"}
          /\ ~FinitePositive(req.body.amount)
       \/ /\ handler \in {"invoicesCreate", "invoicesCreate_v2"}
          /\ req.body.items # Undef
          /\ \E i \in 1..Len(req.body.items.a) :
                LET item == req.body.items.a[i]
                IN \/ ~FinitePositive(item.unitPrice)
                   \/ item.quantity # Undef /\ ~FinitePositive(item.quantity)

\* C16: in the create-invoice, add-payment and create-transaction handlers
\* a body whose amount, or one of whose unitPrice or quantity, is not a
\* finite number greater than 0 is rejected with 400 and no call is sent.
C16_FinitePositiveOnly ==
    BadNumberInBody =>
        /\ Len(resp) = 1
        /\ resp[1].status = 400
        /\ http = <<>>

InvoiceHandlers == {"invoicesCreate", "invoicesCreate_v2"}

\* C17: the input of the invoiceCreate call has as many items as the body,
\* in the same order, the i-th with the i-th unitPrice and quantity (1 when
\* the quantity was omitted), each with the generic product id of the
\* business.
C17_ItemsRoundTrip ==
    (handler \in InvoiceHandlers /\ http # <<>>) =>
        LET items == req.body.items.a
            sent == http[1].body.variables.input.items
        IN /\ Len(sent) = Len(items)
           /\ \A i \in 1..Len(items) :
                 /\ sent[i].unitPrice = items[i].unitPrice
                 /\ sent[i].quantity = IF items[i].quantity = Undef THEN Num(1)
                                       ELSE items[i].quantity
                 /\ sent[i].productId =
                        env["WAVE_PRODUCT_ID_GENERIC_" \o Upper(req.body.businessKey.s)]

\* two items, the first without a quantity, sent by the variant with
\* Number.isFinite
C17_Witness ==
    /\ handler = "invoicesCreate_v2"
    /\ pc = "await"
    /\ req.body.items = Arr(<<Item(Num(10), Undef), Item(Num(10), Num(2))>>)
    /\ Len(http[1].body.variables.input.items) = 2

ItemIsInvalid(item) ==
    \/ ~FinitePositive(item.unitPrice)
    \/ item.quantity # Undef /\ ~FinitePositive(item.quantity)
\* the message for the lowest invalid item of a list that has one
FirstInvalidMessage(items) ==
    LET i == CHOOSE j \in 1..Len(items) :
                 /\ ItemIsInvalid(items[j])
                 /\ \A k \in 1..(j - 1) : ~ItemIsInvalid(items[k])
    IN (IF ~FinitePositive(items[i].unitPrice) THEN "Invalid unitPrice for item "
        ELSE "Invalid quantity for item ") \o ToString(i - 1)

\* C18: for a create-invoice body that passes the checks before the items
\* and has an invalid item, the response is 400 and its message names the
\* lowest index of an invalid item, unitPrice before quantity.
C18_LowestInvalidItem ==
    (/\ handler \in InvoiceHandlers
     /\ BodyIsObject
     /\ ~KeyIsBad
     /\ req.body.customerId = Str("cus-1")
     /\ req.body.items # Undef
     /\ \E i \in 1..Len(req.body.items.a) : ItemIsInvalid(req.body.items.a[i])) =>
        resp = <<[status |-> 400, body |-> [error |-> FirstInvalidMessage(req.body.items.a)]]>>

\* the validator of the handler run on the request's body, and once more on
\* the body the first run left behind
FirstRun ==
    IF handler \in AddPaymentHandlers THEN validateBody_run(req.body)
    ELSE validateRequestBody_run(req.body, handler = "invoicesCreate_v2")
SecondRun ==
    IF handler \in AddPaymentHandlers THEN validateBody_run(FirstRun.body)
    ELSE validateRequestBody_run(FirstRun.body, handler = "invoicesCreate_v2")

DaysBefore == <<0, 31, 60, 91, 121, 152, 182, 213, 244, 274, 305, 335>>
DayNumber(date) == (date[1] - 2024) * 366 + DaysBefore[date[2]] + date[3]
\* pairs of ISO dates of 2024 and the ISO date seven days later
SevenDaysLater ==
    {<<IsoDate(from), IsoDate(to)>> :
        <<from, to>> \in {<<a, b>> \in Calendar \X ({2024, 2025} \X (1..12) \X (1..31)) :
                             /\ b[1] = 2024 => b \in Calendar
                             /\ DayNumber(b) = DayNumber(a) + 7}}
IsCalendarDate(v) == \E pair \in SevenDaysLater : pair[1] = v.s

\* C20: in create-invoice a body that fails validation gets its 400 with
\* nothing computed or sent; a body that passes is sent with the caller's
\* invoiceDate, dueDate and currency where given, and otherwise with the
\* current UTC date, the date seven calendar days after the invoice date
\* (across month and year ends), and 'USD'.
C20_DefaultsAfterValidation ==
    (handler \in InvoiceHandlers /\ BodyIsObject) =>
        LET body == req.body
            invoiceDate == IF body.invoiceDate = Undef THEN Str(todayIsoDate)
                           ELSE body.invoiceDate
        IN /\ FirstRun.result # "" =>
                 /\ http = <<>>
                 /\ trace = [at |-> "validate", crashed |-> FALSE]
           /\ (FirstRun.result = "" /\ (body.dueDate # Undef \/ IsCalendarDate(invoiceDate))) =>
                 http # <<>>
           /\ http # <<>> =>
                 LET input == http[1].body.variables.input
                 IN /\ input.invoiceDate = invoiceDate
                    /\ input.currency = IF body.currency = Undef THEN Str("USD")
                                        ELSE body.currency
                    /\ IF body.dueDate # Undef THEN input.dueDate = body.dueDate
                       ELSE <<invoiceDate.s, input.dueDate.s>> \in SevenDaysLater

\* the invoice of today without dates or currency: 2024-01-28, due
\* 2024-02-04, in USD
C20_Witness ==
    /\ handler = "invoicesCreate"
    /\ http # <<>>
    /\ req.body.invoiceDate = Undef /\ req.body.dueDate = Undef /\ req.body.currency = Undef
    /\ http[1].body.variables.input.invoiceDate = Str("2024-01-28")
    /\ http[1].body.variables.input.dueDate = Str("2024-02-04")
    /\ http[1].body.variables.input.currency = Str("USD")

(***************************************************************************)
(* Properties of the responses (SpecRespond).                              *)
(***************************************************************************)
\* the response field shown is a key of the body, and null when the
\* upstream field given is null
ShownAsNull(given, shown) == shown # Undef /\ (given = Null => shown = Null)

\* the data of the answer the handler responded from
LastData == results[Len(results)].v

\* the invoice of an add-payment 200 against the node it was mapped from
InvoiceInfoShowsNull(node, invoice) ==
    /\ ShownAsNull(node.invoiceNumber, invoice.invoiceNumber)
    /\ ShownAsNull(node.dueDate, invoice.dueDate)
    /\ ShownAsNull(node.total, invoice.totalAmount)
    /\ ShownAsNull(Opt(node.total, "currency"), invoice.totalCurrency)
    /\ ShownAsNull(node.amountDue, invoice.amountDue)
    /\ ShownAsNull(node.customer, invoice.customer.id)
    /\ ShownAsNull(Opt(node.customer, "name"), invoice.customer.name)
    /\ ShownAsNull(Opt(node.customer, "email"), invoice.customer.email)
    /\ ShownAsNull(node.publicUrl, invoice.publicUrl)

\* an item of the invoices/list 200 against its node
ListItemShowsNull(node, item) ==
    /\ ShownAsNull(node.invoiceNumber, item.invoiceNumber)
    /\ ShownAsNull(node.invoiceDate, item.invoiceDate)
    /\ ShownAsNull(node.dueDate, item.dueDate)
    /\ ShownAsNull(node.total, item.total)
    /\ ShownAsNull(node.amountDue, item.amountDue)
    /\ ShownAsNull(Coalesce(node.currency, Coalesce(Opt(node.total, "currency"), Null)),
                   item.currency)
    /\ ShownAsNull(Coalesce(Opt(node.customer, "name"), Null), item.customerName)
    /\ ShownAsNull(node.viewUrl, item.viewUrl)

\* the invoices/create 200 against the invoice the mutation returned
CreatedShowsNull(invoice, body) ==
    /\ ShownAsNull(invoice.invoiceNumber, body.invoiceNumber)
    /\ ShownAsNull(invoice.invoiceDate, body.invoiceDate)
    /\ ShownAsNull(invoice.dueDate, body.dueDate)
    /\ ShownAsNull(invoice.total, body.total)
    /\ ShownAsNull(invoice.amountDue, body.amountDue)
    /\ ShownAsNull(Coalesce(Opt(invoice.total, "currency"), Null), body.currency)
    /\ ShownAsNull(invoice.viewUrl, body.viewUrl)
    /\ ShownAsNull(invoice.pdfUrl, body.pdfUrl)
    /\ handler = "invoicesCreate_v2" =>
          /\ ShownAsNull(Coalesce(Opt(invoice.customer, "name"), Null), body.customerName)
          /\ ShownAsNull(Coalesce(Opt(invoice.customer, "email"), Null), body.customerEmail)

\* C21: in every 200 response each optional field Wave gave as null is a
\* key of the response with the value null, so that the keys are the same
\* whichever fields were absent and no 0 or '' stands in for one.
C21_AbsentFieldIsNull ==
    (resp # <<>> /\ resp[1].status = 200) =>
        CASE handler = "addPayment" ->
                InvoiceInfoShowsNull(LastData.business.invoice, resp[1].body.invoice)
          [] handler = "addPayment_direct" ->
                InvoiceInfoShowsNull(LastData.result.entity.invoice, resp[1].body.invoice)
          [] handler \in {"invoicesCreate", "invoicesCreate_v2"} ->
                CreatedShowsNull(LastData.result.entity, resp[1].body)
          [] handler = "invoicesList" ->
                \A i \in 1..Len(resp[1].body.invoices) :
                    ListItemShowsNull(LastData.business.invoices.edges[i].node,
                                      resp[1].body.invoices[i])
          [] OTHER -> TRUE

\* the invoices of the page the summary was computed from
SummaryInvoices ==
    [i \in 1..Len(LastData.business.invoices.edges) |->
        LastData.business.invoices.edges[i].node]

\* the sum of f over 1..n, from the last index down
RECURSIVE SumTo(_, _)
SumTo(f, n) == IF n = 0 THEN 0 ELSE f[n] + SumTo(f, n - 1)

AmountOf(money) == IF money = Null THEN 0 ELSE money.value.n
WithStatus(status) == Cardinality({i \in DOMAIN SummaryInvoices : SummaryInvoices[i].status = Str(status)})

\* C23: the 200 of summary/month has totalInvoiced = the sum of total,
\* totalOutstanding = the sum of amountDue, totalPaid = the sum of total -
\* amountDue (so paid + outstanding = invoiced), totalInvoices = the number
\* of invoices, and each status count = the number of invoices with that
\* status; an absent amount counts as 0 and another status only in
\* totalInvoices.
C23_SummaryTotals ==
    (handler = "summaryMonth" /\ resp # <<>> /\ resp[1].status = 200) =>
        LET invoices == SummaryInvoices
            n == Len(invoices)
            totals == resp[1].body.totals
            counts == resp[1].body.counts
        IN /\ totals.totalInvoiced = SumTo([i \in 1..n |-> AmountOf(invoices[i].total)], n)
           /\ totals.totalOutstanding = SumTo([i \in 1..n |-> AmountOf(invoices[i].amountDue)], n)
           /\ totals.totalPaid =
                 SumTo([i \in 1..n |-> AmountOf(invoices[i].total) - AmountOf(invoices[i].amountDue)], n)
           /\ totals.totalPaid + totals.totalOutstanding = totals.totalInvoiced
           /\ counts.totalInvoices = n
           /\ counts.draftCount = WithStatus("DRAFT")
           /\ counts.approvedCount = WithStatus("APPROVED")
           /\ counts.sentCount = WithStatus("SENT")
           /\ counts.paidCount = WithStatus("PAID")
           /\ counts.overdueCount = WithStatus("OVERDUE")

\* a paid invoice of 100 and a viewed one without amounts
C23_Witness ==
    /\ handler = "summaryMonth"
    /\ resp # <<>>
    /\ resp[1].status = 200
    /\ Len(SummaryInvoices) = 2
    /\ SummaryInvoices[1].status = Str("PAID")
    /\ SummaryInvoices[1].total = Money(100)
    /\ SummaryInvoices[1].amountDue = Money(40)
    /\ SummaryInvoices[2].status = Str("VIEWED")
    /\ SummaryInvoices[2].total = Null
    /\ resp[1].body.totals = [totalInvoiced |-> 100, totalPaid |-> 60, totalOutstanding |-> 40]
    /\ resp[1].body.counts.paidCount = 1
    /\ resp[1].body.counts.totalInvoices = 2

(***************************************************************************)
(* Properties of concurrent requests (SpecPair, SpecEnsure).               *)
(***************************************************************************)
\* the handler h run alone on rq under env, its calls ending as outs says:
\* the responses it gives and the calls it sends, from the step it is at
RECURSIVE Alone(_, _, _, _, _, _)
Alone(h, rq, step, outs, i, sent) ==
    IF step.k # "call"
    THEN [resp |-> IF step.k = "respond" THEN <<[status |-> step.status, body |-> step.body]>>
                   ELSE <<>>,
          http |-> sent]
    ELSE LET call == [url |-> WAVE_GRAPHQL_ENDPOINT, method |-> "POST",
                      query |-> step.op, variables |-> step.variables]
             sending == IF waveGraphQLFetch_token(env).ok THEN Append(sent, call) ELSE sent
         IN IF i > Len(outs) THEN [resp |-> <<>>, http |-> sending]
            ELSE Alone(h, rq, POST_resume(h, rq, step.ctx, step.op, outs[i]), outs, i + 1,
                       sending)

\* the calls a request sent: where to, and the operation with its variables
CallsOf(sent) ==
    [i \in 1..Len(sent) |->
        [url |-> sent[i].url, method |-> sent[i].method,
         query |-> sent[i].body.query, variables |-> sent[i].body.variables]]

\* a request, running or suspended, shows what it would alone
AsAlone(r) ==
    r.handler # "none" =>
        LET alone == Alone(r.handler, r.req, POST(r.handler, r.req, env), r.results, 1, <<>>)
        IN /\ r.resp = alone.resp
           /\ CallsOf(r.http) = alone.http

Returned == IF waveGraphQLFetch_token(env).ok THEN Len(results) ELSE 0
MutationsSent == {i \in 1..Len(http) : http[i].body.query \in Mutations}

\* C26: the calls of a request are sequential and bounded: every call but
\* possibly the last has returned, the last is in flight exactly while the
\* handler is suspended, at most one call is a mutation, at most three
\* calls are sent.
C26_CallsSequentialAndBounded ==
    /\ Len(http) - Returned \in {0, 1}
    /\ Len(http) - Returned = 1 <=> pc = "await"
    /\ Cardinality(MutationsSent) <= 1
    /\ Len(http) <= 3

\* a payment answered 200 after its three calls, the second the mutation
C26_Witness ==
    /\ handler \in {"addPayment", "addPayment_sales", "addPayment_income"}
    /\ pc = "done" /\ resp # <<>> /\ resp[1].status = 200
    /\ Len(http) = 3 /\ Returned = 3
    /\ MutationsSent = {2}

\* both requests have ended and asked for the same customer
BothEnsured ==
    /\ handler = "customersEnsure" /\ peer.handler = "customersEnsure"
    /\ pc = "done" /\ peer.pc = "done"
    /\ req.body = peer.req.body

\* the customers Wave holds under the name the request asks for
UpstreamNamed(name) ==
    {i \in 1..Len(ledger) : ledger[i].variables.input.name = name.s}

\* C27: two ensure-customer requests for the same customer, unknown to Wave
\* when they arrive, leave that customer once upstream in every
\* interleaving, one answered created: true and the other created: false.
C27_EnsuredOnce ==
    BothEnsured =>
        /\ Cardinality(UpstreamNamed(req.body.name)) = 1
        /\ resp # <<>> /\ peer.resp # <<>>
        /\ resp[1].status = 200 /\ peer.resp[1].status = 200
        /\ {resp[1].body.created, peer.resp[1].body.created} = {TRUE, FALSE}

(***************************************************************************)
(* Properties of ensure-customer (SpecRespond).                            *)
(***************************************************************************)
\* what the request asks for, trimmed; "" when it does not ask
Asked(field) == IF Nullish(req.body[field]) THEN "" ELSE Trim(req.body[field].s)
\* the text of an optional string of Wave's, "" when it is absent
TextOf(v) == IF Nullish(v) THEN "" ELSE v.s

\* the listed customer node matches the request: its email is the asked
\* email, its name contains the asked name, or its phone number contains
\* the asked phone, letter case aside; a field not asked for matches nothing
MatchesRequest(node) ==
    \/ Asked("email") # "" /\ Lower(TextOf(node.email)) = Lower(Asked("email"))
    \/ Asked("name") # "" /\ Includes(Lower(TextOf(node.name)), Lower(Asked("name")))
    \/ /\ Asked("phone") # ""
       /\ Includes(Lower(TextOf(Opt(node.phone, "number"))), Lower(Asked("phone")))

\* the customers the request's list call returned
Listed ==
    IF Len(results) = 0 \/ ~results[1].ok THEN <<>>
    ELSE IF Nullish(results[1].v.business.customers) THEN <<>>
    ELSE results[1].v.business.customers.edges
ListReturnedCustomers ==
    /\ Len(results) >= 1 /\ results[1].ok
    /\ ~Nullish(results[1].v.business.customers)
MatchingListed == {i \in 1..Len(Listed) : MatchesRequest(Listed[i].node)}
CreateSent == \E i \in 1..Len(http) : http[i].body.query = "CUSTOMER_CREATE_MUTATION"

\* C28: ensure-customer sends customerCreate exactly when its list call
\* returned customers of which none matches; on a match it answers 200,
\* created: false, with the first matching customer and no mutation;
\* created: true is answered only after a customerCreate that succeeded.
C28_CreateIffNoMatch ==
    handler = "customersEnsure" =>
        /\ CreateSent <=> (ListReturnedCustomers /\ MatchingListed = {})
        /\ MatchingListed # {} =>
              LET first == Listed[CHOOSE i \in MatchingListed :
                                    \A j \in MatchingListed : i <= j].node
              IN /\ pc = "done" /\ Len(http) = 1
                 /\ resp = <<[status |-> 200,
                              body |-> [businessKey |-> req.body.businessKey.s,
                                        businessId |-> ctx.businessId,
                                        created |-> FALSE,
                                        customer |-> [id |-> first.id, name |-> first.name,
                                                      email |-> first.email,
                                                      phone |-> Coalesce(Opt(first.phone, "number"),
                                                                         Null)]]]>>
        /\ (resp # <<>> /\ resp[1].status = 200 /\ resp[1].body.created) =>
              /\ Len(results) = 2 /\ results[2].ok
              /\ results[2].v.result # Null
              /\ results[2].v.result.didSucceed
              /\ Len(ledger) = 1 /\ ledger[1].op = "CUSTOMER_CREATE_MUTATION"

\* a page of two customers, the second matching by its email spelled in
\* capitals: answered created: false with it, no mutation
C28_Witness ==
    /\ handler = "customersEnsure" /\ pc = "done"
    /\ Len(Listed) = 2 /\ MatchingListed = {2}
    /\ Listed[2].node.email = Str("ANA@X.COM")
    /\ resp # <<>> /\ resp[1].status = 200 /\ ~resp[1].body.created
    /\ resp[1].body.customer.id = "cus-3"
    /\ ~CreateSent

(***************************************************************************)
(* Properties of the add-payment lookup (SpecRespond).                     *)
(***************************************************************************)
\* the body gives the field: a value that is not undefined, null or ''
Provided(v) == ~Nullish(v) /\ v # Str("")
\* the calls that look the invoice up: the queries sent before any mutation
Lookups ==
    {i \in 1..Len(http) :
        /\ http[i].body.query \in LookupQueries
        /\ \A j \in 1..(i - 1) : http[j].body.query \notin Mutations}
\* the lookup returned and its data holds no invoice
LookupYieldedNone ==
    /\ Len(results) >= 1 /\ results[1].ok
    /\ LET data == results[1].v
       IN \/ Nullish(data.business)
          \/ /\ ~Nullish(data.business)
             /\ IF http[1].body.query = "FIND_INVOICE_BY_ID_QUERY"
                THEN Nullish(data.business.invoice)
                ELSE \/ Nullish(data.business.invoices)
                     \/ /\ ~Nullish(data.business.invoices)
                        /\ data.business.invoices.edges = <<>>

\* C29: an add-payment handler makes exactly one lookup call, by invoiceId
\* when the body gives one (whether or not it gives a number) and by
\* invoiceNumber otherwise; a lookup that yields no invoice ends the
\* request with 404 'Invoice not found', no mutation and no re-fetch.
C29_OneLookup ==
    (handler \in AddPaymentHandlers /\ Len(http) >= 1) =>
        /\ Cardinality(Lookups) = 1 /\ 1 \in Lookups
        /\ IF Provided(req.body.invoiceId)
           THEN /\ http[1].body.query = "FIND_INVOICE_BY_ID_QUERY"
                /\ http[1].body.variables.invoiceId = req.body.invoiceId
           ELSE /\ http[1].body.query = "FIND_INVOICE_BY_NUMBER_QUERY"
                /\ http[1].body.variables.invoiceNumber = req.body.invoiceNumber
        /\ LookupYieldedNone =>
              /\ pc = "done" /\ Len(http) = 1
              /\ resp = <<[status |-> 404, body |-> [error |-> "Invoice not found"]]>>

\* both invoiceId and invoiceNumber given, the lookup by id found nothing:
\* 404 after the one call, the number never tried
C29_Witness ==
    /\ handler \in AddPaymentHandlers /\ pc = "done"
    /\ Provided(req.body.invoiceId) /\ Provided(req.body.invoiceNumber)
    /\ Len(http) = 1 /\ http[1].body.query = "FIND_INVOICE_BY_ID_QUERY"
    /\ LookupYieldedNone
    /\ resp # <<>> /\ resp[1].status = 404

(***************************************************************************)
(* Properties of a missing INTERNAL_API_SECRET (Spec).                     *)
(***************************************************************************)
\* C30: while INTERNAL_API_SECRET is unset or empty, a POST request to any
\* handler, whatever its header, is answered 401 at the secret check (not
\* 500), with nothing validated, nothing resolved and no call sent.
C30_UnsetSecretLocksOut ==
    (handler # "none" /\ req.method = "POST" /\ NotSet(env["INTERNAL_API_SECRET"])) =>
        /\ pc = "done"
        /\ Len(resp) = 1
        /\ resp[1].status = 401 /\ resp[1].status # 500
        /\ resp[1].body = [error |-> "Unauthorized"]
        /\ trace = [at |-> "auth", crashed |-> FALSE]
        /\ ctx = NoCtx /\ http = <<>> /\ results = <<>> /\ ledger = <<>>

\* the secret unset, a request with a secret in its header and a valid body
C30_Witness ==
    /\ handler = "customersEnsure"
    /\ env["INTERNAL_API_SECRET"] = Unset
    /\ req.method = "POST" /\ req.secret = "s3cret"
    /\ req.body = EnsureBody(Str("manna"), Str("Ana"), Undef)
    /\ pc = "done"
    /\ resp = <<[status |-> 401, body |-> [error |-> "Unauthorized"]]>>

====
